---- MODULE Spec2Model ----
(***************************************************************************)
(* Personal budget analyzer: the transaction / budget store (db.py) and    *)
(* the rule-based analytics engine (analytics.py).                         *)
(*                                                                         *)
(* Representation                                                          *)
(*   - an ISO date string "YYYY-MM-DD" is the tuple <<y, m, d>>;           *)
(*   - a pandas Timestamp is the day ordinal (days since 1970-01-01);      *)
(*   - a "YYYY-MM" string (year_month, budget month) is the number         *)
(*     y * 100 + m, which keeps both equality and lexicographic order;     *)
(*   - amounts are whole numbers.  The code computes in float64; for whole *)
(*     amounts of this size every threshold comparison below has the same  *)
(*     outcome as the exact rational comparison written here.              *)
(*   - sorts are stable (pandas sorts tables of this size by insertion),   *)
(*     and ORDER BY date returns the rows of one date in rowid order.      *)
(***************************************************************************)
EXTENDS Integers, Sequences, FiniteSets, TLC

VARIABLES
    transactions,   \* rows of table transactions, in rowid order
    next_id,        \* AUTOINCREMENT counter of table transactions
    budgets,        \* rows of table budgets, in rowid order
    next_budget_id, \* AUTOINCREMENT counter of table budgets
    today,          \* date.today(), as a day ordinal
    result,         \* what the last analysis call returned
    users,          \* rows of table users, in rowid order
    next_user_id,   \* AUTOINCREMENT counter of table users
    categories,     \* rows of table categories, in rowid order
    session         \* st.session_state["user"] of each browser session

vars == <<transactions, next_id, budgets, next_budget_id, today, result,
          users, next_user_id, categories, session>>

----------------------------------------------------------------------------
(* Generic helpers *)

Min(a, b) == IF a < b THEN a ELSE b

Max(a, b) == IF a > b THEN a ELSE b

Abs(a) == IF a < 0 THEN -a ELSE a

RECURSIVE Gcd(_, _)
Gcd(a, b) == IF b = 0 THEN a ELSE Gcd(b, a % b)

SetMax(S) == CHOOSE x \in S : \A y \in S : y <= x

SetMin(S) == CHOOSE x \in S : \A y \in S : x <= y

\* Mutant: the cut keeps four.
Head4(s) == SubSeq(s, 1, Min(4, Len(s)))

\* s[:3], .head(3)
Head3(s) == SubSeq(s, 1, Min(3, Len(s)))

\* The indices of keys in ascending key order, equal keys in their original
\* order (a stable sort).
SortedIndices(keys) ==
    LET n == Len(keys)
        rank(i) == Cardinality({j \in 1..n : \/ keys[j] < keys[i]
                                             \/ (keys[j] = keys[i] /\ j < i)}) + 1
    IN  [p \in 1..n |-> CHOOSE i \in 1..n : rank(i) = p]

\* s reordered by ascending keys[i], stable.
SortByKeys(s, keys) ==
    LET perm == SortedIndices(keys)
    IN  [p \in 1..Len(s) |-> s[perm[p]]]

\* The values of s in order of first appearance, without repeats.
Unique(s) ==
    LET first == {i \in 1..Len(s) : \A j \in 1..(i - 1) : s[j] # s[i]}
        idx == SortedIndices([i \in 1..Len(s) |-> IF i \in first THEN 0 ELSE 1])
    IN  [p \in 1..Cardinality(first) |-> s[idx[p]]]

RECURSIVE SumSeq(_)
SumSeq(s) == IF s = <<>> THEN 0 ELSE Head(s) + SumSeq(Tail(s))

RECURSIVE Concat(_)
Concat(ss) == IF ss = <<>> THEN <<>> ELSE Head(ss) \o Concat(Tail(ss))

----------------------------------------------------------------------------
(* Calendar: pd.to_datetime and strftime("%Y-%m") *)

\* Day ordinal of the ISO date <<y, m, d>> (proleptic Gregorian calendar).
DaysFromCivil(iso) ==
    LET y == IF iso[2] <= 2 THEN iso[1] - 1 ELSE iso[1]
        era == y \div 400
        yoe == y - era * 400
        mp == IF iso[2] > 2 THEN iso[2] - 3 ELSE iso[2] + 9
        doy == (153 * mp + 2) \div 5 + iso[3] - 1
        doe == yoe * 365 + yoe \div 4 - yoe \div 100 + doy
    IN  era * 146097 + doe - 719468

\* The calendar date <<y, m, d>> of a day ordinal.
CivilFromDays(z0) ==
    LET z == z0 + 719468
        era == z \div 146097
        doe == z - era * 146097
        yoe == (doe - doe \div 1460 + doe \div 36524 - doe \div 146096) \div 365
        doy == doe - (365 * yoe + yoe \div 4 - yoe \div 100)
        mp == (5 * doy + 2) \div 153
        d == doy - (153 * mp + 2) \div 5 + 1
        m == IF mp < 10 THEN mp + 3 ELSE mp - 9
        y == yoe + era * 400 + (IF m <= 2 THEN 1 ELSE 0)
    IN  <<y, m, d>>

\* strftime("%Y-%m") of a Timestamp.
YearMonth(ts) == LET c == CivilFromDays(ts) IN c[1] * 100 + c[2]

\* The ISO string of a date, as TEXT compares it (ORDER BY date); the empty
\* string <<>> sorts before every date.
DateText(iso) == IF iso = <<>> THEN 0 ELSE iso[1] * 10000 + iso[2] * 100 + iso[3]

\* The number of days of month m of year y.
DaysInMonth(y, m) ==
    IF m = 2
    THEN (IF (y % 4 = 0 /\ y % 100 # 0) \/ y % 400 = 0 THEN 29 ELSE 28)
    ELSE IF m \in {4, 6, 9, 11} THEN 30 ELSE 31

\* The string <<y, m, d>> names a day of the calendar.
IsCalendarDate(s) ==
    /\ Len(s) = 3
    /\ s[2] \in 1..12
    /\ s[3] \in 1..DaysInMonth(s[1], s[2])

\* pandas' null Timestamp NaT, held as the smallest int64: a count of
\* nanoseconds that falls on 21 September 1677, a day whose midnight no
\* Timestamp can hold.
NaT == DaysFromCivil(<<1677, 9, 21>>)

\* pd.to_datetime (errors="raise") raises on a string that names no day of
\* the calendar; the empty string and a missing value are null, not an error.
DateParseFails(s) == s # <<>> /\ ~IsCalendarDate(s)

\* pd.to_datetime of one value that does not make it raise.
to_datetime(s) == IF s = <<>> THEN NaT ELSE DaysFromCivil(s)

----------------------------------------------------------------------------
(* db.py: the store *)

\* Python's None where a string is expected.
None == "None"

\* An optional argument: Nothing is None, Some(v) is the value v.
Nothing == <<>>

Some(v) == <<v>>

\* Category names in lexicographic order (the order groupby sorts its keys in).
CategoryOrder == <<"cafe", "dining", "salary", "subscription", "transport">>

CategoryRank(c) == CHOOSE i \in 1..Len(CategoryOrder) : CategoryOrder[i] = c

\* Mutant: the rows of every user.
get_transactions_of_all(user_id, start_date, end_date) ==
    LET rows == SelectSeq(transactions, LAMBDA r :
                    /\ (start_date # Nothing /\ start_date[1] # <<>>
                            => DateText(r.date) >= DateText(start_date[1]))
                    /\ (end_date # Nothing /\ end_date[1] # <<>>
                            => DateText(r.date) <= DateText(end_date[1])))
    IN  SortByKeys(rows, [i \in 1..Len(rows) |-> -DateText(rows[i].date)])

\* db.get_transactions(user_id, start_date, end_date): the user's rows within
\* the bounds that are given (if start_date: / if end_date: take None and the
\* empty string for no bound), ORDER BY date DESC (rows of one date in rowid
\* order).  The dates are compared as text.
get_transactions(user_id, start_date, end_date) ==
    LET rows == SelectSeq(transactions, LAMBDA r :
                    /\ r.user_id = user_id
                    /\ (start_date # Nothing /\ start_date[1] # <<>>
                            => DateText(r.date) >= DateText(start_date[1]))
                    /\ (end_date # Nothing /\ end_date[1] # <<>>
                            => DateText(r.date) <= DateText(end_date[1])))
    IN  SortByKeys(rows, [i \in 1..Len(rows) |-> -DateText(rows[i].date)])

\* db.get_budgets(user_id, month): with a month, that month's rows in rowid
\* order; without, all the user's rows ORDER BY month DESC.
get_budgets(user_id, month) ==
    LET rows == SelectSeq(budgets, LAMBDA b :
                    b.user_id = user_id /\ (month # Nothing => b.month = month[1]))
    IN  IF month # Nothing THEN rows
        ELSE SortByKeys(rows, [i \in 1..Len(rows) |-> -rows[i].month])

----------------------------------------------------------------------------
(* analytics.py: the transaction table *)

\* transactions_to_dataframe raises (the exception of pd.to_datetime leaves
\* the function) when the date of a record cannot be parsed.
ToDataframeRaises(txs) == \E i \in 1..Len(txs) : DateParseFails(txs[i].date)

\* transactions_to_dataframe when it does not raise: one row per record, the
\* date parsed and the month bucket derived from the parsed date (strftime
\* of NaT is NaN, held as 0).  The functions below are modelled for tables
\* without a null date.
transactions_to_dataframe(txs) ==
    [i \in 1..Len(txs) |->
        LET ts == to_datetime(txs[i].date)
        IN  [id |-> txs[i].id,
             date |-> ts,
             type |-> txs[i].type,
             amount |-> txs[i].amount,
             category |-> txs[i].category,
             payment_method |-> txs[i].payment_method,
             year_month |-> IF ts = NaT THEN 0 ELSE YearMonth(ts),
             day_of_week |-> IF ts = NaT THEN -1 ELSE (ts + 3) % 7]]

\* The columns of the table: the empty record list gives a table of the
\* record fields only, without the derived columns.
Columns(df) ==
    {"id", "date", "type", "amount", "category", "payment_method", "memo", "created_at"}
    \cup (IF df = <<>> THEN {} ELSE {"user_id", "year_month", "day_of_week", "day_name"})

IncomeRows(df) == SelectSeq(df, LAMBDA r : r.type = "income")

\* Mutant: every row that is not an income counts as an expense.
ExpenseRowsNotIncome(df) == SelectSeq(df, LAMBDA r : r.type # "income")

\* df[df["type"] == "expense"]
ExpenseRows(df) == SelectSeq(df, LAMBDA r : r.type = "expense")

Amounts(rows) == [i \in 1..Len(rows) |-> rows[i].amount]

\* rows[rows["category"] == cat]
CategoryRows(rows, cat) == SelectSeq(rows, LAMBDA r : r.category = cat)

\* groupby("category")["amount"].sum(): <<category, sum>> pairs, the
\* categories in sorted order.
SumByCategory(rows) ==
    LET cats == {rows[i].category : i \in 1..Len(rows)}
        n == Cardinality(cats)
        byRank == [p \in 1..n |->
                     CHOOSE c \in cats :
                        Cardinality({x \in cats : CategoryRank(x) < CategoryRank(c)}) = p - 1]
    IN  [p \in 1..n |-> <<byRank[p], SumSeq(Amounts(CategoryRows(rows, byRank[p])))>>]

\* Mutant: the cut is taken before the sort.
TopCategoriesHeadFirst(rows) ==
    LET sums == Head3(SumByCategory(rows))
    IN  SortByKeys(sums, [i \in 1..Len(sums) |-> -sums[i][2]])

\* .sort_values(ascending=False).head(3) of the category sums.
TopCategories(rows) ==
    LET sums == SumByCategory(rows)
    IN  Head3(SortByKeys(sums, [i \in 1..Len(sums) |-> -sums[i][2]]))

\* A quotient num / den that the code holds as a float.
Ratio(num, den) == [num |-> num, den |-> den]

EmptySummary ==
    [total_income |-> 0, total_expense |-> 0, net |-> 0,
     daily_avg_expense |-> Ratio(0, 1), top_categories |-> <<>>,
     tx_count |-> 0, expense_count |-> 0, income_count |-> 0]

\* Mutant: the net counts the expense as a gain.
NetOfAdded(total_income, total_expense) == total_income + total_expense

\* "net": total_income - total_expense
NetOf(total_income, total_expense) == total_income - total_expense

\* Mutant: the days are counted between the first and the last expense.
DateRangeOfExpenses(df) ==
    LET dates == {df[i].date : i \in {k \in 1..Len(df) : df[k].type = "expense"}}
    IN  Max((SetMax(dates) - SetMin(dates)) + 1, 1)

\* date_range = (df["date"].max() - df["date"].min()).days + 1, at least 1;
\* df is the whole table.
DateRange(df) ==
    LET dates == {df[i].date : i \in 1..Len(df)}
    IN  Max((SetMax(dates) - SetMin(dates)) + 1, 1)

get_summary(df) ==
    IF df = <<>> THEN EmptySummary
    ELSE
        LET income_df == IncomeRows(df)
            expense_df == ExpenseRows(df)
            total_income == IF income_df # <<>> THEN SumSeq(Amounts(income_df)) ELSE 0
            total_expense == IF expense_df # <<>> THEN SumSeq(Amounts(expense_df)) ELSE 0
            date_range == DateRange(df)
        IN  [total_income |-> total_income,
             total_expense |-> total_expense,
             net |-> NetOf(total_income, total_expense),
             daily_avg_expense |-> IF expense_df # <<>>
                                   THEN Ratio(total_expense, date_range)
                                   ELSE Ratio(0, 1),
             top_categories |-> IF expense_df # <<>>
                                THEN TopCategories(expense_df)
                                ELSE <<>>,
             tx_count |-> Len(df),
             expense_count |-> Len(expense_df),
             income_count |-> Len(income_df)]

----------------------------------------------------------------------------
(* analytics.py: the grouped breakdowns.  A result is the sequence of its
   rows; a function raises (KeyError) when it reads a column the table does
   not have. *)

PaymentOrder == <<"card", "cash">>

TypeOrder == <<"expense", "income", "transfer">>

RankIn(order, v) == CHOOSE i \in 1..Len(order) : order[i] = v

\* The elements of a set of integers in ascending order.
Ascending(S) ==
    [p \in 1..Cardinality(S) |-> CHOOSE x \in S : Cardinality({y \in S : y < x}) = p - 1]

\* <<category, sum>> rows in descending order of the sum.
get_expense_by_category(df) ==
    LET expense_df == ExpenseRows(df)
        sums == SumByCategory(expense_df)
    IN  IF expense_df = <<>> THEN <<>>
        ELSE SortByKeys(sums, [i \in 1..Len(sums) |-> -sums[i][2]])

get_expense_by_category_raises(df) == "type" \notin Columns(df)

\* Mutant: a running total kept between the calls, each sum added to the
\* sum the call before returned for that row.
get_expense_by_date_running(df) ==
    LET expense_df == ExpenseRows(df)
        dates == Ascending({expense_df[i].date : i \in 1..Len(expense_df)})
        before == result.charts.by_date
    IN  [p \in 1..Len(dates) |->
            <<dates[p],
              SumSeq(Amounts(SelectSeq(expense_df, LAMBDA r : r.date = dates[p])))
                + (IF p <= Len(before) THEN before[p][2] ELSE 0)>>]

\* <<date, sum>> rows in ascending order of the date.
get_expense_by_date(df) ==
    LET expense_df == ExpenseRows(df)
        dates == Ascending({expense_df[i].date : i \in 1..Len(expense_df)})
    IN  IF expense_df = <<>> THEN <<>>
        ELSE [p \in 1..Len(dates) |->
                <<dates[p],
                  SumSeq(Amounts(SelectSeq(expense_df, LAMBDA r : r.date = dates[p])))>>]

get_expense_by_date_raises(df) == "type" \notin Columns(df)

\* Mutant: the month column is read whatever the table holds.
get_income_expense_by_month_raises_unguarded(df) == "year_month" \notin Columns(df)

\* if df.empty: return ... comes before the groupby on year_month.
get_income_expense_by_month_raises(df) ==
    df # <<>> /\ "year_month" \notin Columns(df)

\* <<year_month, type, sum>> rows in ascending order of the month, the types
\* of one month in sorted order.
get_income_expense_by_month(df) ==
    LET groups == Ascending({df[i].year_month * 10 + RankIn(TypeOrder, df[i].type) :
                                i \in 1..Len(df)})
    IN  IF df = <<>> THEN <<>>
        ELSE [p \in 1..Len(groups) |->
                LET month == groups[p] \div 10
                    type == TypeOrder[groups[p] % 10]
                IN  <<month, type,
                      SumSeq(Amounts(SelectSeq(df, LAMBDA r :
                                r.year_month = month /\ r.type = type)))>>]

\* Mutant: the sums of the payment methods over the rows of every type.
get_expense_by_payment_all_types(df) ==
    LET methods == Ascending({RankIn(PaymentOrder, df[i].payment_method) :
                                i \in 1..Len(df)})
        sums == [p \in 1..Len(methods) |->
                    <<PaymentOrder[methods[p]],
                      SumSeq(Amounts(SelectSeq(df, LAMBDA r :
                                r.payment_method = PaymentOrder[methods[p]])))>>]
    IN  SortByKeys(sums, [i \in 1..Len(sums) |-> -sums[i][2]])

\* <<payment_method, sum>> rows in descending order of the sum.
get_expense_by_payment(df) ==
    LET expense_df == ExpenseRows(df)
        methods == Ascending({RankIn(PaymentOrder, expense_df[i].payment_method) :
                                i \in 1..Len(expense_df)})
        sums == [p \in 1..Len(methods) |->
                    <<PaymentOrder[methods[p]],
                      SumSeq(Amounts(SelectSeq(expense_df, LAMBDA r :
                                r.payment_method = PaymentOrder[methods[p]])))>>]
    IN  IF expense_df = <<>> THEN <<>>
        ELSE SortByKeys(sums, [i \in 1..Len(sums) |-> -sums[i][2]])

get_expense_by_payment_raises(df) == "type" \notin Columns(df)

\* Mutant: the sum of the expenses of each weekday.
get_expense_by_dayofweek_sum(df) ==
    LET expense_df == ExpenseRows(df)
        days == Ascending({expense_df[i].day_of_week : i \in 1..Len(expense_df)})
    IN  [p \in 1..Len(days) |->
            <<days[p],
              Ratio(SumSeq(Amounts(SelectSeq(expense_df, LAMBDA r :
                        r.day_of_week = days[p]))), 1)>>]

\* <<day_order, mean>> rows from Monday (0) to Sunday (6), the mean of the
\* expenses of that weekday.
get_expense_by_dayofweek(df) ==
    LET expense_df == ExpenseRows(df)
        days == Ascending({expense_df[i].day_of_week : i \in 1..Len(expense_df)})
    IN  IF expense_df = <<>> THEN <<>>
        ELSE [p \in 1..Len(days) |->
                LET rows == SelectSeq(expense_df, LAMBDA r : r.day_of_week = days[p])
                IN  <<days[p], Ratio(SumSeq(Amounts(rows)), Len(rows))>>]

\* The expense filter and the empty check come before the groupby on
\* day_name.
get_expense_by_dayofweek_raises(df) ==
    \/ "type" \notin Columns(df)
    \/ ExpenseRows(df) # <<>> /\ "day_name" \notin Columns(df)

\* get_summary reads type, amount, date and category, after its empty check.
get_summary_raises(df) == df # <<>> /\ "type" \notin Columns(df)

NoCharts ==
    [by_category |-> <<>>, by_date |-> <<>>, by_month |-> <<>>,
     by_payment |-> <<>>, by_dayofweek |-> <<>>]

----------------------------------------------------------------------------
(* analytics.py: the insight rules *)

\* One insight.  rule and msg name the rule and the message template; the
\* other fields are the values the message embeds (None / 0 where a template
\* has none).
Insight(rule, type, msg, category, amount, date, pct) ==
    [rule |-> rule, type |-> type, msg |-> msg, category |-> category,
     amount |-> amount, date |-> date, pct |-> pct]

NoDataInsight == Insight("empty", "info", "no_data", None, 0, 0, Ratio(0, 1))

\* Mutant: the notice names the last of the listed categories.
TopCategoryInsightLast(summary) ==
    IF summary.top_categories # <<>>
    THEN LET last == summary.top_categories[Len(summary.top_categories)]
             pct == IF summary.total_expense > 0
                    THEN Ratio(last[2] * 100, summary.total_expense)
                    ELSE Ratio(0, 1)
         IN  <<Insight("top_category", "info", "top_category", last[1], last[2], 0, pct)>>
    ELSE <<>>

\* 1) the largest expense category and its share of the total expense
TopCategoryInsight(summary) ==
    IF summary.top_categories # <<>>
    THEN LET top_cat == summary.top_categories[1][1]
             top_amt == summary.top_categories[1][2]
             pct == IF summary.total_expense > 0
                    THEN Ratio(top_amt * 100, summary.total_expense)
                    ELSE Ratio(0, 1)
         IN  <<Insight("top_category", "info", "top_category", top_cat, top_amt, 0, pct)>>
    ELSE <<>>

\* groupby("year_month")["amount"].sum().sort_index(): <<month, sum>> pairs
\* in ascending month order.
MonthlyExpense(expense_df) ==
    LET months == {expense_df[i].year_month : i \in 1..Len(expense_df)}
        n == Cardinality(months)
        byRank == [p \in 1..n |->
                     CHOOSE m \in months : Cardinality({x \in months : x < m}) = p - 1]
    IN  [p \in 1..n |->
            <<byRank[p],
              SumSeq(Amounts(SelectSeq(expense_df, LAMBDA r : r.year_month = byRank[p])))>>]

\* Mutant: an increase of exactly 20 % already warns.
MonthKindInclusive(current_amt, prev_amt) ==
    IF (current_amt - prev_amt) * 100 >= 20 * prev_amt THEN "warning"
    ELSE IF (current_amt - prev_amt) * 100 < (-10) * prev_amt THEN "success"
    ELSE "info"

\* The kind of the month-over-month insight: change_pct > 20, < -10, else.
\* change_pct = (current_amt - prev_amt) / prev_amt * 100, with prev_amt > 0.
MonthKind(current_amt, prev_amt) ==
    IF (current_amt - prev_amt) * 100 > 20 * prev_amt THEN "warning"
    ELSE IF (current_amt - prev_amt) * 100 < (-10) * prev_amt THEN "success"
    ELSE "info"

MonthMsg(kind) ==
    CASE kind = "warning" -> "increased"
      [] kind = "success" -> "decreased"
      [] OTHER -> "flat"

\* 2) month-over-month change of the expense total
\* Mutant: the current month is compared with the calendar month before it.
_month_comparison_insight_adjacent(df) ==
    LET expense_df == ExpenseRows(df)
        monthly == MonthlyExpense(expense_df)
        n == Len(monthly)
        current_month == monthly[n][1]
        current_amt == monthly[n][2]
        prev_month == IF current_month % 100 = 1 THEN current_month - 89
                      ELSE current_month - 1
        prev_amt == SumSeq(Amounts(SelectSeq(expense_df, LAMBDA r :
                                r.year_month = prev_month)))
    IN  IF expense_df = <<>> \/ n < 2 \/ prev_amt <= 0 THEN <<>>
        ELSE LET kind == MonthKind(current_amt, prev_amt)
             IN  <<Insight("month", kind, MonthMsg(kind), None,
                           current_amt, current_month,
                           Ratio((current_amt - prev_amt) * 100, prev_amt))>>

_month_comparison_insight(df) ==
    LET expense_df == ExpenseRows(df)
    IN  IF expense_df = <<>> THEN <<>>
        ELSE
            LET monthly == MonthlyExpense(expense_df)
                n == Len(monthly)
            IN  IF n >= 2
                THEN LET current_month == monthly[n][1]
                         current_amt == monthly[n][2]
                         prev_amt == monthly[n - 1][2]
                     IN  IF prev_amt > 0
                         THEN LET kind == MonthKind(current_amt, prev_amt)
                              IN  <<Insight("month", kind, MonthMsg(kind), None,
                                            current_amt, current_month,
                                            Ratio((current_amt - prev_amt) * 100, prev_amt))>>
                         ELSE <<>>
                ELSE <<>>

\* Mutant: the approaching band starts above 80 %, not at it.
BudgetLevelExclusive(spent, budget_amt) ==
    IF budget_amt <= 0 THEN "none"
    ELSE IF spent * 100 >= 100 * budget_amt THEN "exceeded"
    ELSE IF spent * 100 > 80 * budget_amt THEN "approaching"
    ELSE "none"

\* usage_pct = spent / budget_amt * 100 (0 if budget_amt <= 0) against the
\* 100 and 80 marks.
BudgetLevel(spent, budget_amt) ==
    IF budget_amt <= 0 THEN "none"
    ELSE IF spent * 100 >= 100 * budget_amt THEN "exceeded"
    ELSE IF spent * 100 >= 80 * budget_amt THEN "approaching"
    ELSE "none"

\* The insight of one budget of the current month (the loop body).
BudgetInsight(current_expenses, budget) ==
    LET budget_amt == budget.budget_amount
        cat == budget.category
        spent == IF cat # "" /\ cat # None
                 THEN SumSeq(Amounts(CategoryRows(current_expenses, cat)))
                 ELSE SumSeq(Amounts(current_expenses))
        level == BudgetLevel(spent, budget_amt)
        pct == IF budget_amt > 0 THEN Ratio(spent * 100, budget_amt) ELSE Ratio(0, 1)
    IN  IF level = "none" THEN <<>>
        ELSE <<Insight("budget", "warning", level, cat, spent, budget.month, pct)>>

\* _budget_warning_insights raises: the loop reaches a budget of the current
\* month whose budget_amount is no number, and budget_amt > 0 is a TypeError.
BudgetRuleRaises(df, budget_list, today_) ==
    LET expense_df == ExpenseRows(df)
        current_month == YearMonth(today_)
        current_expenses == SelectSeq(expense_df, LAMBDA r : r.year_month = current_month)
    IN  /\ expense_df # <<>>
        /\ budget_list # <<>>
        /\ current_expenses # <<>>
        /\ \E i \in 1..Len(budget_list) :
                /\ budget_list[i].month = current_month
                /\ budget_list[i].amount_type # "real"

\* Mutant: the current month is read off the day after today.
_budget_warning_insights_tomorrow(df, budget_list, today_) ==
    LET expense_df == ExpenseRows(df)
        current_month == YearMonth(today_ + 1)
        current_expenses == SelectSeq(expense_df, LAMBDA r : r.year_month = current_month)
    IN  IF expense_df = <<>> \/ budget_list = <<>> THEN <<>>
        ELSE IF current_expenses = <<>> THEN <<>>
        ELSE Concat([i \in 1..Len(budget_list) |->
                        IF budget_list[i].month # current_month THEN <<>>
                        ELSE BudgetInsight(current_expenses, budget_list[i])])

\* 3) budget usage of the current calendar month; today_ is date.today(),
\* which the function reads from the system clock.
_budget_warning_insights(df, budget_list, today_) ==
    LET expense_df == ExpenseRows(df)
        current_month == YearMonth(today_)
        current_expenses == SelectSeq(expense_df, LAMBDA r : r.year_month = current_month)
    IN  IF expense_df = <<>> \/ budget_list = <<>> THEN <<>>
        ELSE IF current_expenses = <<>> THEN <<>>
        ELSE Concat([i \in 1..Len(budget_list) |->
                        IF budget_list[i].month # current_month THEN <<>>
                        ELSE BudgetInsight(current_expenses, budget_list[i])])

\* The subsequence of s at the indices in keep, in order.
AtIndices(s, keep) ==
    LET idx == SortedIndices([i \in 1..Len(s) |-> IF i \in keep THEN 0 ELSE 1])
    IN  [p \in 1..Cardinality(keep) |-> s[idx[p]]]

\* The amounts divided by their common divisor: mean and standard deviation
\* scale with the amounts, so every comparison below is unchanged, and the
\* squares stay small.
Scaled(amounts) ==
    LET RECURSIVE G(_)
        G(t) == IF t = <<>> THEN 0 ELSE Gcd(Head(t), G(Tail(t)))
        g == Max(G(amounts), 1)
    IN  [i \in 1..Len(amounts) |-> amounts[i] \div g]

SumSquares(xs) == SumSeq([i \in 1..Len(xs) |-> xs[i] * xs[i]])

\* cat_df["amount"].std() == 0: the sample variance
\* (n * sum(x^2) - sum(x)^2) / (n * (n - 1)) is zero.
StdIsZero(amounts) ==
    LET xs == Scaled(amounts)
        n == Len(xs)
    IN  n * SumSquares(xs) - SumSeq(xs) * SumSeq(xs) = 0

\* Mutant: the threshold is mean + 1 * std.
ExceedsOneStd(k, amounts) ==
    LET xs == Scaled(amounts)
        n == Len(xs)
        S == SumSeq(xs)
        D == n * xs[k] - S
    IN  D > 0 /\ D * D * (n - 1) > n * (n * SumSquares(xs) - S * S)

\* Mutant: the threshold is mean + 1.5 * std.
ExceedsOneAndHalfStd(k, amounts) ==
    LET xs == Scaled(amounts)
        n == Len(xs)
        S == SumSeq(xs)
        D == n * xs[k] - S
    IN  D > 0 /\ 4 * D * D * (n - 1) > 9 * n * (n * SumSquares(xs) - S * S)

\* amounts[k] > mean + 2 * std, std the sample standard deviation (ddof = 1):
\* with D = n * x - sum, that is D > 0 and
\* D^2 * (n - 1) > 4 * n * (n * sum(x^2) - sum(x)^2).
ExceedsThreshold(k, amounts) ==
    LET xs == Scaled(amounts)
        n == Len(xs)
        S == SumSeq(xs)
        D == n * xs[k] - S
    IN  D > 0 /\ D * D * (n - 1) > 4 * n * (n * SumSquares(xs) - S * S)

\* Mutant: any amount at or above the mean passes the ratio test.
RatioAtLeastOne(k, amounts) == Len(amounts) * amounts[k] >= SumSeq(amounts)

\* ratio = amount / mean_amt >= 2 (the mean of a category with a non-zero
\* deviation and no negative amount is positive)
RatioAtLeastTwo(k, amounts) == Len(amounts) * amounts[k] >= 2 * SumSeq(amounts)

\* The insights of one category (the body of the loop over categories).
CategoryOutliers(cat_df, cat) ==
    LET amounts == Amounts(cat_df)
    IN  IF Len(cat_df) < 3 THEN <<>>
        ELSE IF StdIsZero(amounts) THEN <<>>
        ELSE LET flagged == {k \in 1..Len(cat_df) :
                                ExceedsThreshold(k, amounts) /\ RatioAtLeastTwo(k, amounts)}
                 rows == AtIndices(cat_df, flagged)
             IN  [p \in 1..Len(rows) |->
                    Insight("outlier", "info", "outlier", cat, rows[p].amount, rows[p].date,
                            Ratio(rows[p].amount * Len(amounts), SumSeq(amounts)))]

\* Every outlier insight, before the cut to 3.
OutlierCandidates(df) ==
    LET expense_df == ExpenseRows(df)
        cats == Unique([i \in 1..Len(expense_df) |-> expense_df[i].category])
    IN  IF Len(expense_df) < 5 THEN <<>>
        ELSE Concat([c \in 1..Len(cats) |->
                        CategoryOutliers(CategoryRows(expense_df, cats[c]), cats[c])])

\* 4) outliers
_outlier_insights(df) == Head3(OutlierCandidates(df))

\* Mutant: two expense records are enough.
TooFewForRecurringPair(expense_df) == Len(expense_df) < 2

\* if len(expense_df) < 4: return insights
TooFewForRecurring(expense_df) == Len(expense_df) < 4

\* Mutant: the inner loop runs to the end of the category.
LoopPairsToEnd(n) ==
    Concat([i \in 1..(n - 1) |-> [k \in 1..(n - i) |-> <<i, i + k>>]])

\* The pairs (i, j) of the double loop, in loop order:
\* for i in range(n - 1): for j in range(i + 1, min(i + 5, n)).
LoopPairs(n) ==
    Concat([i \in 1..(n - 1) |-> [k \in 1..(Min(i + 4, n) - i) |-> <<i, i + k>>]])

\* The recurrence test on one pair of a category's rows.
IsRecurringPair(cat_df, i, j) ==
    LET amt_i == cat_df[i].amount
        amt_j == cat_df[j].amount
        day_diff == cat_df[j].date - cat_df[i].date
    IN  /\ amt_i > 0
        /\ 5 * Abs(amt_i - amt_j) <= amt_i
        /\ 25 <= day_diff /\ day_diff <= 35

\* key = f"{cat}_{int(amt_i/1000)*1000}"
RecurringKey(cat, amt_i) == <<cat, (amt_i \div 1000) * 1000>>

\* The pairs of one category that pass the test, in loop order, each with its
\* key and the amount the message would name.
CategoryRecurring(cat_df, cat) ==
    LET pairs == LoopPairs(Len(cat_df))
        hits == SelectSeq(pairs, LAMBDA q : IsRecurringPair(cat_df, q[1], q[2]))
    IN  [p \in 1..Len(hits) |->
            [key |-> RecurringKey(cat, cat_df[hits[p][1]].amount),
             category |-> cat,
             amount |-> cat_df[hits[p][1]].amount,
             first |-> cat_df[hits[p][1]].id,
             second |-> cat_df[hits[p][2]].id]]

\* Mutant: every passing pair is reported.
KeepEveryPair(hits) == hits

\* found_recurring: a pair is reported only if its key was not seen before.
FirstOfEachKey(hits) ==
    AtIndices(hits, {i \in 1..Len(hits) : \A j \in 1..(i - 1) : hits[j].key # hits[i].key})

\* Every pair that passes the test, in loop order over the categories and
\* over each category's pairs.
RecurringHits(df) ==
    LET unsorted == ExpenseRows(df)
        expense_df == SortByKeys(unsorted, [i \in 1..Len(unsorted) |-> unsorted[i].date])
        cats == Unique([i \in 1..Len(expense_df) |-> expense_df[i].category])
    IN  IF TooFewForRecurring(expense_df) THEN <<>>
        ELSE Concat([c \in 1..Len(cats) |->
                        CategoryRecurring(CategoryRows(expense_df, cats[c]), cats[c])])

\* Every recurrence insight, before the cut to 3.
RecurringCandidates(df) ==
    LET kept == FirstOfEachKey(RecurringHits(df))
    IN  [p \in 1..Len(kept) |->
            Insight("recurring", "info", "recurring", kept[p].category,
                    kept[p].amount, 0, Ratio(0, 1))]

\* 5) recurring expenses
_recurring_expense_insights(df) == Head3(RecurringCandidates(df))

\* Mutant: a savings rate of exactly 30 % is not yet a success.
SavingsKindExclusive(net, total_income) ==
    IF net * 100 > 30 * total_income THEN "success"
    ELSE IF net * 100 >= 10 * total_income THEN "info"
    ELSE IF net * 100 < 0 THEN "warning"
    ELSE "none"

\* save_rate = net / total_income * 100 against the 30, 10 and 0 marks.
SavingsKind(net, total_income) ==
    IF net * 100 >= 30 * total_income THEN "success"
    ELSE IF net * 100 >= 10 * total_income THEN "info"
    ELSE IF net * 100 < 0 THEN "warning"
    ELSE "none"

SavingsMsg(kind) ==
    CASE kind = "success" -> "save_good"
      [] kind = "info" -> "save_nudge"
      [] OTHER -> "deficit"

\* 6) savings rate
SavingsInsight(summary) ==
    IF summary.total_income > 0 /\ summary.total_expense > 0
    THEN LET kind == SavingsKind(summary.net, summary.total_income)
         IN  IF kind = "none" THEN <<>>
             ELSE <<Insight("savings", kind, SavingsMsg(kind), None,
                            Abs(summary.net), 0,
                            Ratio(summary.net * 100, summary.total_income))>>
    ELSE <<>>

\* Mutant: the savings commentary leads the list.
RunRulesSavingsFirst(df, budget_list, today_) ==
    LET summary == get_summary(df)
    IN  SavingsInsight(summary)
        \o TopCategoryInsight(summary)
        \o _month_comparison_insight(df)
        \o (IF budget_list # <<>>
            THEN _budget_warning_insights(df, budget_list, today_)
            ELSE <<>>)
        \o _outlier_insights(df)
        \o _recurring_expense_insights(df)

\* The six rules on a table, in pipeline order.
RunRules(df, budget_list, today_) ==
    LET summary == get_summary(df)
    IN  TopCategoryInsight(summary)
        \o _month_comparison_insight(df)
        \o (IF budget_list # <<>>
            THEN _budget_warning_insights(df, budget_list, today_)
            ELSE <<>>)
        \o _outlier_insights(df)
        \o _recurring_expense_insights(df)
        \o SavingsInsight(summary)

\* Mutant: no short cut for the empty table.
generate_insights_unguarded(df, budget_list, today_) ==
    RunRules(df, budget_list, today_)

\* generate_insights raises when a rule does: no rule is called inside a
\* try block.  Of the rules only the budget rule can raise on a table of
\* numeric amounts.
generate_insights_raises(df, budget_list, today_) ==
    /\ df # <<>>
    /\ budget_list # <<>>
    /\ BudgetRuleRaises(df, budget_list, today_)

\* generate_insights(df, budgets) when it does not raise; date.today() is
\* the third argument.
generate_insights(df, budget_list, today_) ==
    IF df = <<>> THEN <<NoDataInsight>>
    ELSE RunRules(df, budget_list, today_)

----------------------------------------------------------------------------
(* db.py: accounts.  A bcrypt hash is the pair <<"bcrypt", password>>: the
   salt plays no part in what verify_password answers. *)

accounts == <<users, next_user_id, categories, session>>

\* os.environ.get("ADMIN_ID", "admin") and os.environ.get("ADMIN_PW", ...).
AdminName == "admin"

AdminPassword == "dkms3498!"

\* DEFAULT_EXPENSE_CATEGORIES and DEFAULT_INCOME_CATEGORIES, in English.
DEFAULT_EXPENSE_CATEGORIES ==
    <<"food", "transport", "housing", "shopping", "leisure",
      "health", "education", "events", "insurance", "other expense">>

DEFAULT_INCOME_CATEGORIES ==
    <<"salary", "side income", "allowance", "investment", "other income">>

hash_password(password) == <<"bcrypt", password>>

verify_password(password, stored_hash) == stored_hash = <<"bcrypt", password>>

\* The browser sessions; in each st.session_state["user"] is None (Nothing)
\* or the dict authenticate_user returned.
Sessions == {1, 2}

\* INSERT OR IGNORE INTO categories: a row is added unless the table holds
\* the same (user_id, type, name).
RECURSIVE InsertOrIgnore(_, _)
InsertOrIgnore(cats, rows) ==
    IF rows = <<>> THEN cats
    ELSE InsertOrIgnore(
            IF \E i \in 1..Len(cats) : cats[i] = Head(rows) THEN cats
            ELSE Append(cats, Head(rows)),
            Tail(rows))

\* _insert_default_categories: the table categories after the call.
_insert_default_categories(cats, user_id) ==
    InsertOrIgnore(cats,
        [i \in 1..Len(DEFAULT_EXPENSE_CATEGORIES) |->
            [user_id |-> user_id, type |-> "expense",
             name |-> DEFAULT_EXPENSE_CATEGORIES[i]]]
        \o [i \in 1..Len(DEFAULT_INCOME_CATEGORIES) |->
            [user_id |-> user_id, type |-> "income",
             name |-> DEFAULT_INCOME_CATEGORIES[i]]])

\* SELECT id FROM users WHERE username = ?: the positions of the rows.
UsersNamed(rows, username) == {i \in 1..Len(rows) : rows[i].username = username}

\* A seeding that leaves an account of the admin name as it finds it.
_seed_admin_if_missing(rows, next, cats) ==
    IF UsersNamed(rows, AdminName) # {}
    THEN [users |-> rows, next_user_id |-> next, categories |-> cats]
    ELSE [users |-> Append(rows,
                        [id |-> next, username |-> AdminName,
                         password_hash |-> hash_password(AdminPassword),
                         role |-> "admin"]),
          next_user_id |-> next + 1,
          categories |-> _insert_default_categories(cats, next)]

\* _seed_admin: the tables users and categories and the counter after the
\* call.  An account of the admin name gets the role admin; without one the
\* account is inserted with the default categories.
_seed_admin(rows, next, cats) ==
    IF UsersNamed(rows, AdminName) # {}
    THEN [users |-> [i \in 1..Len(rows) |->
                        IF rows[i].username = AdminName
                        THEN [rows[i] EXCEPT !.role = "admin"] ELSE rows[i]],
          next_user_id |-> next,
          categories |-> cats]
    ELSE [users |-> Append(rows,
                        [id |-> next, username |-> AdminName,
                         password_hash |-> hash_password(AdminPassword),
                         role |-> "admin"]),
          next_user_id |-> next + 1,
          categories |-> _insert_default_categories(cats, next)]

\* The accounts after the first init_db of a new database file, nobody
\* logged in.
AccountsSeeded ==
    LET seeded == _seed_admin(<<>>, 1, <<>>)
    IN  /\ users = seeded.users
        /\ next_user_id = seeded.next_user_id
        /\ categories = seeded.categories
        /\ session = [s \in Sessions |-> Nothing]

\* register_user: the tables after the call and what it returns.  A used
\* username fails the UNIQUE constraint: the IntegrityError is caught, None
\* is returned, and the failed INSERT leaves the counter as it was.
register_user(rows, next, cats, username, password) ==
    IF UsersNamed(rows, username) # {}
    THEN [users |-> rows, next_user_id |-> next, categories |-> cats,
          returned |-> Nothing]
    ELSE [users |-> Append(rows,
                        [id |-> next, username |-> username,
                         password_hash |-> hash_password(password),
                         role |-> "user"]),
          next_user_id |-> next + 1,
          categories |-> _insert_default_categories(cats, next),
          returned |-> Some(next)]

\* authenticate_user: Some({id, username, role}) of the account, or Nothing.
authenticate_user(rows, username, password) ==
    LET hit == UsersNamed(rows, username)
        row == rows[CHOOSE i \in hit : TRUE]
    IN  IF hit # {} /\ verify_password(password, row.password_hash)
        THEN Some([id |-> row.id, username |-> row.username, role |-> row.role])
        ELSE Nothing

\* update_user_role: UPDATE users SET role=? WHERE id=?.
update_user_role(rows, user_id, new_role) ==
    [i \in 1..Len(rows) |->
        IF rows[i].id = user_id THEN [rows[i] EXCEPT !.role = new_role] ELSE rows[i]]

\* The CHECK(role IN ('user','admin')) of the column fails the UPDATE of a
\* row.
update_user_role_raises(rows, user_id, new_role) ==
    /\ new_role \notin {"user", "admin"}
    /\ \E i \in 1..Len(rows) : rows[i].id = user_id

\* Mutant: the role of the account as the table users holds it now.
require_admin_by_table(s) ==
    IF session[s] = Nothing THEN "login"
    ELSE IF \E i \in 1..Len(users) :
                users[i].id = session[s][1].id /\ users[i].role = "admin"
    THEN "admin" ELSE "denied"

\* auth.require_admin in the session s: "login" when require_login shows the
\* login form and stops, "denied" when the role of the session's user dict
\* is not admin, "admin" when the page goes on.
require_admin(s) ==
    IF session[s] = Nothing THEN "login"
    ELSE IF session[s][1].role # "admin" THEN "denied"
    ELSE "admin"

\* FOREIGN KEY (user_id) REFERENCES users(id), with PRAGMA foreign_keys=ON.
UserExists(user_id) == \E i \in 1..Len(users) : users[i].id = user_id

\* The accounts after init_db and the registration of a second user.
AccountsOfTwo ==
    LET seeded == _seed_admin(<<>>, 1, <<>>)
        two == register_user(seeded.users, seeded.next_user_id, seeded.categories,
                             "bob", "pw")
    IN  /\ users = two.users
        /\ next_user_id = two.next_user_id
        /\ categories = two.categories
        /\ session = [s \in Sessions |-> Nothing]

----------------------------------------------------------------------------
(* Operations *)

\* error is the exception that left the call ("" when it returned), table
\* the table a call of transactions_to_dataframe alone returned, charts the
\* grouped breakdowns, runs the number of times the aggregation functions
\* ran on table and previous what they returned the time before.  For a
\* call of a db.py or auth.py function call is its name, args its arguments,
\* returned the value it returned (Nothing for None) and rows the rows a
\* query returned; for init_db previous is the table users the call found.
NoResult ==
    [done |-> FALSE, user_id |-> 0, start_date |-> Nothing, end_date |-> Nothing,
     budgets |-> <<>>, summary |-> EmptySummary, insights |-> <<>>,
     error |-> "", table |-> <<>>, charts |-> NoCharts,
     runs |-> 0, previous |-> Nothing,
     call |-> "", args |-> <<>>, returned |-> Nothing, rows |-> <<>>]

\* The outcome of a call of user_id that raised.
Raised(user_id, error) ==
    [NoResult EXCEPT !.done = TRUE, !.user_id = user_id, !.error = error]

Init ==
    /\ transactions = <<>>
    /\ next_id = 1
    /\ budgets = <<>>
    /\ next_budget_id = 1
    /\ today = DaysFromCivil(<<2024, 3, 15>>)
    /\ result = NoResult
    /\ AccountsSeeded

\* db.add_transaction: INSERT INTO transactions; the store checks neither the
\* type nor the amount.  (For a user_id that is no account the INSERT fails
\* the foreign key and the call raises.)
AddTransaction(user_id, date_str, tx_type, amount, category, payment_method) ==
    /\ UserExists(user_id)
    /\ transactions' = Append(transactions,
            [id |-> next_id, user_id |-> user_id, date |-> date_str,
             type |-> tx_type, amount |-> amount, category |-> category,
             payment_method |-> payment_method])
    /\ next_id' = next_id + 1
    /\ result' = NoResult
    /\ UNCHANGED <<budgets, next_budget_id, today, accounts>>

\* Mutant: WHERE id=?, whoever owns the row.
WhereId(r, tx_id, user_id) == r.id = tx_id

\* WHERE id=? AND user_id=? of update_transaction, delete_transaction and
\* get_transaction_by_id.
WhereIdAndUser(r, tx_id, user_id) == r.id = tx_id /\ r.user_id = user_id

\* db.update_transaction: UPDATE transactions SET date, type, amount,
\* category, payment_method, memo WHERE id=? AND user_id=?.
UpdateTransaction(user_id, tx_id, date_str, tx_type, amount, category, payment_method) ==
    /\ transactions' = [i \in 1..Len(transactions) |->
            IF WhereIdAndUser(transactions[i], tx_id, user_id)
            THEN [transactions[i] EXCEPT !.date = date_str, !.type = tx_type,
                                         !.amount = amount, !.category = category,
                                         !.payment_method = payment_method]
            ELSE transactions[i]]
    /\ result' = [NoResult EXCEPT !.call = "update_transaction",
                                  !.args = <<user_id, tx_id>>]
    /\ UNCHANGED <<next_id, budgets, next_budget_id, today, accounts>>

\* db.delete_transaction: DELETE FROM transactions WHERE id=? AND user_id=?.
DeleteTransaction(user_id, tx_id) ==
    /\ transactions' = SelectSeq(transactions, LAMBDA r :
                            ~WhereIdAndUser(r, tx_id, user_id))
    /\ result' = [NoResult EXCEPT !.call = "delete_transaction",
                                  !.args = <<user_id, tx_id>>]
    /\ UNCHANGED <<next_id, budgets, next_budget_id, today, accounts>>

\* db.admin_delete_transaction: DELETE FROM transactions WHERE id=?.
AdminDeleteTransaction(tx_id) ==
    /\ transactions' = SelectSeq(transactions, LAMBDA r : r.id # tx_id)
    /\ result' = [NoResult EXCEPT !.call = "admin_delete_transaction",
                                  !.args = <<tx_id>>]
    /\ UNCHANGED <<next_id, budgets, next_budget_id, today, accounts>>

\* db.get_transaction_by_id: the row as a dict, or None.
GetTransactionById(user_id, tx_id) ==
    LET hit == SelectSeq(transactions, LAMBDA r : WhereIdAndUser(r, tx_id, user_id))
    IN  /\ result' = [NoResult EXCEPT
                        !.done = TRUE,
                        !.user_id = user_id,
                        !.call = "get_transaction_by_id",
                        !.args = <<user_id, tx_id>>,
                        !.returned = IF hit = <<>> THEN Nothing ELSE Some(hit[1])]
        /\ UNCHANGED <<transactions, next_id, budgets, next_budget_id, today, accounts>>

\* db.get_transactions with a user and the two date bounds.
GetTransactions(user_id, start_date, end_date) ==
    /\ result' = [NoResult EXCEPT
                    !.done = TRUE,
                    !.user_id = user_id,
                    !.call = "get_transactions",
                    !.args = <<user_id, start_date, end_date>>,
                    !.rows = get_transactions(user_id, start_date, end_date)]
    /\ UNCHANGED <<transactions, next_id, budgets, next_budget_id, today, accounts>>

\* The tables users and categories as _seed_admin leaves them.
SeedAdmin(seeded) ==
    /\ users' = seeded.users
    /\ next_user_id' = seeded.next_user_id
    /\ categories' = seeded.categories

\* db.init_db: the CREATE TABLE IF NOT EXISTS statements leave the rows of
\* existing tables alone; then _seed_admin.
InitDb ==
    /\ SeedAdmin(_seed_admin(users, next_user_id, categories))
    /\ result' = [NoResult EXCEPT !.call = "init_db", !.previous = Some(users)]
    /\ UNCHANGED <<transactions, next_id, budgets, next_budget_id, today, session>>

\* db.register_user.  Before the first init_db there is no table users (the
\* table holds the admin account from then on) and the INSERT raises.
RegisterUser(username, password) ==
    LET after == register_user(users, next_user_id, categories, username, password)
    IN  /\ IF users = <<>>
           THEN /\ result' = [NoResult EXCEPT !.call = "register_user",
                                              !.args = <<username>>,
                                              !.error = "OperationalError"]
                /\ UNCHANGED <<users, next_user_id, categories>>
           ELSE /\ SeedAdmin(after)
                /\ result' = [NoResult EXCEPT !.call = "register_user",
                                              !.args = <<username>>,
                                              !.returned = after.returned]
        /\ UNCHANGED <<transactions, next_id, budgets, next_budget_id, today, session>>

\* db.update_user_role.
UpdateUserRole(user_id, new_role) ==
    /\ IF users = <<>>
       THEN /\ result' = [NoResult EXCEPT !.call = "update_user_role",
                                          !.args = <<user_id, new_role>>,
                                          !.error = "OperationalError"]
            /\ UNCHANGED users
       ELSE IF update_user_role_raises(users, user_id, new_role)
       THEN /\ result' = [NoResult EXCEPT !.call = "update_user_role",
                                          !.args = <<user_id, new_role>>,
                                          !.error = "IntegrityError"]
            /\ UNCHANGED users
       ELSE /\ users' = update_user_role(users, user_id, new_role)
            /\ result' = [NoResult EXCEPT !.call = "update_user_role",
                                          !.args = <<user_id, new_role>>]
    /\ UNCHANGED <<transactions, next_id, budgets, next_budget_id, today,
                   next_user_id, categories, session>>

\* The login form of a session that is not logged in: the page script runs
\* init_db, require_login shows the form, and the handler stores the dict of
\* authenticate_user in the session (and reruns the script) when the
\* credentials match.
Login(s, username, password) ==
    LET seeded == _seed_admin(users, next_user_id, categories)
        user == authenticate_user(seeded.users, username, password)
    IN  /\ session[s] = Nothing
        /\ SeedAdmin(seeded)
        /\ session' = IF user # Nothing THEN [session EXCEPT ![s] = user] ELSE session
        /\ result' = [NoResult EXCEPT !.call = "login", !.args = <<s, username>>,
                                      !.returned = user]
        /\ UNCHANGED <<transactions, next_id, budgets, next_budget_id, today>>

\* The logout button of show_user_info.
Logout(s) ==
    /\ session[s] # Nothing
    /\ SeedAdmin(_seed_admin(users, next_user_id, categories))
    /\ session' = [session EXCEPT ![s] = Nothing]
    /\ result' = [NoResult EXCEPT !.call = "logout", !.args = <<s>>]
    /\ UNCHANGED <<transactions, next_id, budgets, next_budget_id, today>>

\* A visit of the admin page: init_db, then require_admin.
AdminPage(s) ==
    /\ SeedAdmin(_seed_admin(users, next_user_id, categories))
    /\ result' = [NoResult EXCEPT !.call = "require_admin", !.args = <<s>>,
                                  !.returned = Some(require_admin(s))]
    /\ UNCHANGED <<transactions, next_id, budgets, next_budget_id, today, session>>

\* The role change button of the admin page, for the user and the role the
\* two select boxes hold: the page runs init_db and require_admin, the
\* handler refuses to take the admin role from the session's own account and
\* to set the role an account has, else calls update_user_role and reruns
\* the script, which starts with init_db.
ChangeRole(s, selected_uid, new_role) ==
    LET seeded == _seed_admin(users, next_user_id, categories)
        target == {i \in 1..Len(seeded.users) : seeded.users[i].id = selected_uid}
        admin_id == session[s][1].id
        refused == \/ target = {}
                   \/ selected_uid = admin_id /\ new_role = "user"
                   \/ \E i \in target : seeded.users[i].role = new_role
        changed == update_user_role(seeded.users, selected_uid, new_role)
    IN  /\ require_admin(s) = "admin"
        /\ SeedAdmin(IF refused THEN seeded
                     ELSE _seed_admin(changed, seeded.next_user_id, seeded.categories))
        /\ result' = [NoResult EXCEPT !.call = "change_role",
                                      !.args = <<s, selected_uid, new_role>>]
        /\ UNCHANGED <<transactions, next_id, budgets, next_budget_id, today, session>>

\* add_transaction with the arguments of one input record.
AddInput(user_id, in) ==
    AddTransaction(user_id, in.date, in.type, in.amount, in.category, "card")

\* db.set_budget: INSERT ... ON CONFLICT(user_id, month, category) DO UPDATE
\* SET budget_amount.  amount_type is the storage class SQLite gives the
\* value: "real" for a number, "text" for a string that is no number.  The
\* column category takes NULL (Python's None), and a UNIQUE constraint
\* holds NULLs to be distinct: a call with category None conflicts with no
\* row.  The AUTOINCREMENT counter moves on at every call, the rowid being
\* drawn before the conflict is found.
SetBudgetAs(user_id, month, category, amount, amount_type) ==
    LET hit == {i \in 1..Len(budgets) :
                    /\ category # None
                    /\ budgets[i].user_id = user_id
                    /\ budgets[i].month = month
                    /\ budgets[i].category = category}
    IN  /\ UserExists(user_id)
        /\ budgets' = IF hit # {}
                      THEN [i \in 1..Len(budgets) |->
                                IF i \in hit
                                THEN [budgets[i] EXCEPT !.budget_amount = amount,
                                                        !.amount_type = amount_type]
                                ELSE budgets[i]]
                      ELSE Append(budgets,
                                [id |-> next_budget_id, user_id |-> user_id,
                                 month |-> month, category |-> category,
                                 budget_amount |-> amount,
                                 amount_type |-> amount_type])
        /\ next_budget_id' = next_budget_id + 1
        /\ result' = NoResult
        /\ UNCHANGED <<transactions, next_id, today, accounts>>

\* db.delete_budget: DELETE FROM budgets WHERE id=? AND user_id=?.
DeleteBudget(user_id, budget_id) ==
    /\ budgets' = SelectSeq(budgets, LAMBDA b :
                        ~(b.id = budget_id /\ b.user_id = user_id))
    /\ result' = NoResult
    /\ UNCHANGED <<transactions, next_id, next_budget_id, today, accounts>>

\* set_budget with a number.
SetBudget(user_id, month, category, amount) ==
    SetBudgetAs(user_id, month, category, amount, "real")

\* set_budget with a string that is no number: the REAL column keeps it as
\* text (budget_amount holds 0 in its place and is not read).
SetBudgetText(user_id, month, category) ==
    SetBudgetAs(user_id, month, category, 0, "text")

\* The calendar moves on to the day d.
AdvanceClock(d) ==
    /\ DaysFromCivil(d) > today
    /\ today' = DaysFromCivil(d)
    /\ result' = NoResult
    /\ UNCHANGED <<transactions, next_id, budgets, next_budget_id, accounts>>

\* One analysis of a user's records: get_transactions, the table,
\* get_summary and generate_insights with the budgets of get_budgets
\* (month Nothing: all of them; else the month's).  The pages stop before the
\* analysis when the table is empty; the functions themselves take any table,
\* the empty one included.
Analyze(user_id, month) ==
    LET txs == get_transactions(user_id, Nothing, Nothing)
        df == transactions_to_dataframe(txs)
        budget_list == get_budgets(user_id, month)
    IN  /\ result' = IF ToDataframeRaises(txs) THEN Raised(user_id, "ValueError")
                     ELSE IF generate_insights_raises(df, budget_list, today)
                     THEN [Raised(user_id, "TypeError") EXCEPT !.budgets = budget_list]
                     ELSE [NoResult EXCEPT
                              !.done = TRUE,
                              !.user_id = user_id,
                              !.budgets = budget_list,
                              !.summary = get_summary(df),
                              !.insights = generate_insights(df, budget_list, today)]
        /\ UNCHANGED <<transactions, next_id, budgets, next_budget_id, today, accounts>>

\* The dashboard's analysis of the period start_date .. end_date that the
\* sidebar selects, with the budgets of the current month.
AnalyzeRange(user_id, start_date, end_date) ==
    LET txs == get_transactions(user_id, Some(start_date), Some(end_date))
        df == transactions_to_dataframe(txs)
        budget_list == get_budgets(user_id, Some(YearMonth(today)))
    IN  /\ result' = IF ToDataframeRaises(txs) THEN Raised(user_id, "ValueError")
                     ELSE IF generate_insights_raises(df, budget_list, today)
                     THEN [Raised(user_id, "TypeError") EXCEPT
                              !.start_date = Some(start_date),
                              !.end_date = Some(end_date),
                              !.budgets = budget_list]
                     ELSE [NoResult EXCEPT
                              !.done = TRUE,
                              !.user_id = user_id,
                              !.start_date = Some(start_date),
                              !.end_date = Some(end_date),
                              !.budgets = budget_list,
                              !.summary = get_summary(df),
                              !.insights = generate_insights(df, budget_list, today)]
        /\ UNCHANGED <<transactions, next_id, budgets, next_budget_id, today, accounts>>

\* The summary and the five breakdowns of a user's table.  (The pages stop
\* before them when the table is empty; the functions themselves take any
\* table.)
Aggregate(user_id) ==
    LET txs == get_transactions(user_id, Nothing, Nothing)
        df == transactions_to_dataframe(txs)
    IN  /\ result' =
                IF ToDataframeRaises(txs) THEN Raised(user_id, "ValueError")
                ELSE IF \/ get_summary_raises(df)
                        \/ get_expense_by_date_raises(df)
                        \/ get_expense_by_category_raises(df)
                        \/ get_expense_by_payment_raises(df)
                        \/ get_expense_by_dayofweek_raises(df)
                        \/ get_income_expense_by_month_raises(df)
                THEN Raised(user_id, "KeyError")
                ELSE [NoResult EXCEPT
                        !.done = TRUE,
                        !.user_id = user_id,
                        !.summary = get_summary(df),
                        !.charts = [by_category |-> get_expense_by_category(df),
                                    by_date |-> get_expense_by_date(df),
                                    by_month |-> get_income_expense_by_month(df),
                                    by_payment |-> get_expense_by_payment(df),
                                    by_dayofweek |-> get_expense_by_dayofweek(df)]]
        /\ UNCHANGED <<transactions, next_id, budgets, next_budget_id, today, accounts>>

\* The analysis page's table and one run of the aggregation functions on
\* it: the first run builds the table from the user's records, a later run
\* takes the table the run before took.  No function assigns to df or to a
\* column of it (each works on df[df["type"] == "expense"] or on a groupby
\* result), so the table is after the run what it was before.
AggregateTable(user_id) ==
    LET txs == get_transactions(user_id, Nothing, Nothing)
        again == result.runs > 0 /\ result.user_id = user_id
        df == IF again THEN result.table ELSE transactions_to_dataframe(txs)
    IN  /\ ~ToDataframeRaises(txs)
        /\ result' = [NoResult EXCEPT
                        !.done = TRUE,
                        !.user_id = user_id,
                        !.table = df,
                        !.summary = get_summary(df),
                        !.charts = [by_category |-> get_expense_by_category(df),
                                    by_date |-> get_expense_by_date(df),
                                    by_month |-> get_income_expense_by_month(df),
                                    by_payment |-> get_expense_by_payment(df),
                                    by_dayofweek |-> get_expense_by_dayofweek(df)],
                        !.runs = IF again THEN result.runs + 1 ELSE 1,
                        !.previous = IF again
                                     THEN Some([summary |-> result.summary,
                                                charts |-> result.charts])
                                     ELSE Nothing]
        /\ UNCHANGED <<transactions, next_id, budgets, next_budget_id, today, accounts>>

\* transactions_to_dataframe on the records of a user, as every page calls
\* it before anything else.
BuildTable(user_id) ==
    LET txs == get_transactions(user_id, Nothing, Nothing)
    IN  /\ result' = IF ToDataframeRaises(txs) THEN Raised(user_id, "ValueError")
                     ELSE [NoResult EXCEPT
                              !.done = TRUE,
                              !.user_id = user_id,
                              !.table = transactions_to_dataframe(txs)]
        /\ UNCHANGED <<transactions, next_id, budgets, next_budget_id, today, accounts>>

----------------------------------------------------------------------------
(* Specifications: one per group of rules, each with the inputs its rules
   react to. *)

UserIds == {1}

D0 == <<2024, 1, 1>>

D30 == <<2024, 1, 31>>

D61 == <<2024, 3, 2>>

D140 == <<2024, 5, 20>>

Input(date, type, amount, category) ==
    [date |-> date, type |-> type, amount |-> amount, category |-> category]

MaxSummaryTx == 4

SummaryInputs ==
    {Input(D0, "expense", 1000, "cafe"), Input(D0, "expense", 2000, "dining"),
     Input(D0, "expense", 3000, "subscription"), Input(D0, "expense", 1000, "transport"),
     Input(D30, "expense", 4000, "transport"), Input(D30, "income", 5000, "salary"),
     Input(D0, "transfer", 500, "transport")}

NextSummary ==
    \/ /\ Len(transactions) < MaxSummaryTx
       /\ \E u \in UserIds, in \in SummaryInputs : AddInput(u, in)
    \/ \E u \in UserIds : Analyze(u, Nothing)

SpecSummary == Init /\ [][NextSummary]_vars

MaxOutlierTx == 6

OutlierInputs ==
    {Input(D0, "expense", 10000, "dining"), Input(D0, "expense", 50000, "dining"),
     Input(D30, "expense", 50000, "dining"), Input(D0, "expense", 10000, "cafe")}

NextOutlier ==
    \/ /\ Len(transactions) < MaxOutlierTx
       /\ \E u \in UserIds, in \in OutlierInputs : AddInput(u, in)
    \/ \E u \in UserIds : Analyze(u, Nothing)

SpecOutlier == Init /\ [][NextOutlier]_vars

MaxRecurringTx == 5

RecurringInputs ==
    {Input(d, "expense", 9900, "subscription") : d \in {D0, D30, D61}}
    \cup {Input(d, "expense", 10000, "subscription") : d \in {D0, D30}}
    \cup {Input(D0, "expense", 1000, "dining")}

NextRecurring ==
    \/ /\ Len(transactions) < MaxRecurringTx
       /\ \E u \in UserIds, in \in RecurringInputs : AddInput(u, in)
    \/ \E u \in UserIds : Analyze(u, Nothing)

SpecRecurring == Init /\ [][NextRecurring]_vars

MaxMonthTx == 4

MonthInputs ==
    {Input(D0, "expense", a, "dining") : a \in {0, 100000}}
    \cup {Input(D61, "expense", a, "dining") : a \in {85000, 90000, 120000, 130000}}
    \cup {Input(D140, "income", 100000, "salary")}

NextMonth ==
    \/ /\ Len(transactions) < MaxMonthTx
       /\ \E u \in UserIds, in \in MonthInputs : AddInput(u, in)
    \/ \E u \in UserIds : Analyze(u, Nothing)

SpecMonth == Init /\ [][NextMonth]_vars

MaxBudgetTx == 3

MaxBudgets == 2

BudgetTxInputs ==
    {Input(D61, "expense", a, "dining") : a \in {300000, 100000, 50000}}
    \cup {Input(D61, "expense", 100000, "cafe")}

\* <<month, category, budget_amount>> arguments of set_budget.
BudgetInputs ==
    {<<202403, "", 500000>>, <<202403, "dining", 500000>>,
     <<202403, "dining", 0>>, <<202404, "", 500000>>}

ClockDays == {<<2024, 4, 1>>}

NextBudget ==
    \/ /\ Len(transactions) < MaxBudgetTx
       /\ \E u \in UserIds, in \in BudgetTxInputs : AddInput(u, in)
    \/ /\ next_budget_id <= MaxBudgets
       /\ \E u \in UserIds, b \in BudgetInputs : SetBudget(u, b[1], b[2], b[3])
    \/ \E d \in ClockDays : AdvanceClock(d)
    \/ \E u \in UserIds, m \in {Nothing, Some(YearMonth(today))} : Analyze(u, m)

SpecBudget == Init /\ [][NextBudget]_vars

MaxSavingsTx == 5

SavingsInputs ==
    {Input(D0, "expense", a, "dining") : a \in {70000, 20000, 5000}}
    \cup {Input(D0, "income", 100000, "salary")}

NextSavings ==
    \/ /\ Len(transactions) < MaxSavingsTx
       /\ \E u \in UserIds, in \in SavingsInputs : AddInput(u, in)
    \/ \E u \in UserIds : Analyze(u, Nothing)

SpecSavings == Init /\ [][NextSavings]_vars

MaxDailyTx == 4

DailyInputs ==
    {Input(D0, "expense", 1000, "dining"), Input(D30, "expense", 3000, "dining"),
     Input(D0, "expense", 0, "cafe"), Input(D30, "expense", 3500, "cafe"),
     Input(D61, "income", 5000, "salary"), Input(D140, "income", 5000, "salary")}

\* <<start_date, end_date>> periods of the sidebar.
Periods == {<<D0, D140>>, <<D30, D61>>, <<D0, D30>>}

NextDaily ==
    \/ /\ Len(transactions) < MaxDailyTx
       /\ \E u \in UserIds, in \in DailyInputs : AddInput(u, in)
    \/ \E u \in UserIds, p \in Periods : AnalyzeRange(u, p[1], p[2])

SpecDaily == Init /\ [][NextDaily]_vars

\* The whole pipeline on tables that make every rule speak.  Each category
\* has one of three shapes: no record, a monthly pair, or BaseRecords equal
\* expenses with a repeat a month later and one large expense in March.
BaseRecords == 5

PipelineCategories == <<"cafe", "dining", "subscription", "transport">>

Shapes == {"none", "pair", "full"}

CategoryInputs(cat, shape) ==
    CASE shape = "none" -> <<>>
      [] shape = "pair" ->
            <<Input(D0, "expense", 10000, cat), Input(D30, "expense", 10000, cat)>>
      [] OTHER ->
            [i \in 1..BaseRecords |-> Input(D0, "expense", 10000, cat)]
            \o <<Input(D30, "expense", 10000, cat), Input(D61, "expense", 50000, cat)>>

\* The rows the store holds after add_transaction was called with each input
\* in turn.
RowsOf(user_id, inputs) ==
    [i \in 1..Len(inputs) |->
        [id |-> i, user_id |-> user_id, date |-> inputs[i].date,
         type |-> inputs[i].type, amount |-> inputs[i].amount,
         category |-> inputs[i].category, payment_method |-> "card"]]

PipelineBudgets ==
    {<<>>,
     <<[id |-> 1, user_id |-> 1, month |-> 202403, category |-> "",
        budget_amount |-> 100000, amount_type |-> "real"]>>}

InitPipeline ==
    \E shape \in [1..Len(PipelineCategories) -> Shapes],
       income \in {<<>>, <<Input(D0, "income", 1000000, "salary")>>},
       budget_rows \in PipelineBudgets :
        LET inputs == Concat([c \in 1..Len(PipelineCategories) |->
                                CategoryInputs(PipelineCategories[c], shape[c])])
                      \o income
        IN  /\ transactions = RowsOf(1, inputs)
            /\ next_id = Len(inputs) + 1
            /\ budgets = budget_rows
            /\ next_budget_id = Len(budget_rows) + 1
            /\ today = DaysFromCivil(<<2024, 3, 15>>)
            /\ result = NoResult
            /\ AccountsSeeded

NextPipeline ==
    \/ \E u \in UserIds : Analyze(u, Some(YearMonth(today)))
    \/ \E d \in ClockDays : AdvanceClock(d)

SpecPipeline == InitPipeline /\ [][NextPipeline]_vars

\* The outlier rule on tables of dining expenses: up to MaxPlain of 10,000,
\* some of 15,000 and of 50,000, beside a few cafe expenses.
MaxPlain == 9

Repeat(n, in) == [i \in 1..n |-> in]

InitOutlierRule ==
    \E n10 \in 0..MaxPlain, n15 \in 0..1, n50 \in 0..2, ncafe \in 0..2 :
        LET inputs == Repeat(n10, Input(D0, "expense", 10000, "dining"))
                      \o Repeat(n15, Input(D30, "expense", 15000, "dining"))
                      \o Repeat(ncafe, Input(D30, "expense", 10000, "cafe"))
                      \o Repeat(n50, Input(D61, "expense", 50000, "dining"))
        IN  /\ transactions = RowsOf(1, inputs)
            /\ next_id = Len(inputs) + 1
            /\ budgets = <<>>
            /\ next_budget_id = 1
            /\ today = DaysFromCivil(<<2024, 3, 15>>)
            /\ result = NoResult
            /\ AccountsSeeded

NextOutlierRule == \E u \in UserIds : Analyze(u, Nothing)

SpecOutlierRule == InitOutlierRule /\ [][NextOutlierRule]_vars

\* The recurring-expense rule on tables of up to MaxSame subscription
\* expenses of 9,900 on 1 January and any of a list of later records: gaps
\* of 24, 25, 35 and 36 days, amounts 20 % and a little more than 20 % lower,
\* an amount of 0, and a record of another category.
MaxSame == 5

LaterInputs ==
    <<Input(<<2024, 1, 25>>, "expense", 9900, "subscription"),
      Input(<<2024, 1, 26>>, "expense", 9900, "subscription"),
      Input(<<2024, 2, 5>>, "expense", 9900, "subscription"),
      Input(<<2024, 2, 6>>, "expense", 9900, "subscription"),
      Input(D30, "expense", 7920, "subscription"),
      Input(D30, "expense", 7900, "subscription"),
      Input(D0, "expense", 0, "subscription"),
      Input(D30, "expense", 9900, "dining")>>

InitRecurringRule ==
    \E n \in 0..MaxSame, later \in SUBSET (1..Len(LaterInputs)) :
        LET inputs == AtIndices(LaterInputs, later)
                      \o Repeat(n, Input(D0, "expense", 9900, "subscription"))
        IN  /\ transactions = RowsOf(1, inputs)
            /\ next_id = Len(inputs) + 1
            /\ budgets = <<>>
            /\ next_budget_id = 1
            /\ today = DaysFromCivil(<<2024, 3, 15>>)
            /\ result = NoResult
            /\ AccountsSeeded

NextRecurringRule == \E u \in UserIds : Analyze(u, Nothing)

SpecRecurringRule == InitRecurringRule /\ [][NextRecurringRule]_vars

\* The table build on records whose date is a day, the empty string, or a
\* string that names no day (30 February, month 13).
MaxBuildTx == 3

BuildInputs ==
    {Input(D0, "expense", 1000, "dining"), Input(D30, "income", 5000, "salary"),
     Input(<<>>, "expense", 1000, "dining"),
     Input(<<2024, 2, 30>>, "expense", 1000, "dining"),
     Input(<<2024, 13, 1>>, "expense", 1000, "dining")}

NextBuild ==
    \/ /\ Len(transactions) < MaxBuildTx
       /\ \E u \in UserIds, in \in BuildInputs : AddInput(u, in)
    \/ \E u \in UserIds : BuildTable(u)

SpecBuild == Init /\ [][NextBuild]_vars

\* The pipeline with a budget whose amount is no number.
MaxFailureTx == 3

\* set_budget calls.
MaxFailureBudgets == 2

FailureInputs ==
    {Input(D61, "expense", 300000, "dining"), Input(D61, "expense", 100000, "cafe"),
     Input(D0, "expense", 100000, "dining"), Input(D61, "income", 1000000, "salary")}

NextFailure ==
    \/ /\ Len(transactions) < MaxFailureTx
       /\ \E u \in UserIds, in \in FailureInputs : AddInput(u, in)
    \/ /\ next_budget_id <= MaxFailureBudgets
       /\ \E u \in UserIds : SetBudget(u, 202403, "", 200000)
    \/ /\ next_budget_id <= MaxFailureBudgets
       /\ \E u \in UserIds : SetBudgetText(u, 202403, "dining")
    \/ \E u \in UserIds : Analyze(u, Some(YearMonth(today)))

SpecFailure == Init /\ [][NextFailure]_vars

\* The summary and the breakdowns on small tables, the empty one and tables
\* of incomes only included.
MaxAggregateTx == 3

AggregateInputs ==
    {Input(D0, "expense", 1000, "dining"), Input(D30, "expense", 2000, "cafe"),
     Input(D0, "income", 5000, "salary"), Input(D61, "income", 7000, "salary")}

NextAggregate ==
    \/ /\ Len(transactions) < MaxAggregateTx
       /\ \E u \in UserIds, in \in AggregateInputs, method \in {"card", "cash"} :
            AddTransaction(u, in.date, in.type, in.amount, in.category, method)
    \/ \E u \in UserIds : Aggregate(u)

SpecAggregate == Init /\ [][NextAggregate]_vars

\* The breakdowns on expenses of several weekdays, dates, categories and
\* payment methods, with incomes among them, each run up to MaxRuns times.
MaxBreakdownTx == 4

MaxRuns == 2

SUNDAY == <<2024, 1, 7>>

BreakdownInputs ==
    {<<Input(D0, "expense", 1000, "dining"), "card">>,
     <<Input(D140, "expense", 3000, "cafe"), "cash">>,
     <<Input(D30, "expense", 2000, "cafe"), "card">>,
     <<Input(SUNDAY, "expense", 1500, "transport"), "cash">>,
     <<Input(D0, "income", 5000, "salary"), "card">>,
     <<Input(D61, "income", 7000, "salary"), "cash">>}

NextBreakdown ==
    \/ /\ Len(transactions) < MaxBreakdownTx
       /\ \E u \in UserIds, in \in BreakdownInputs :
            AddTransaction(u, in[1].date, in[1].type, in[1].amount, in[1].category, in[2])
    \/ /\ result.runs < MaxRuns
       /\ \E u \in UserIds : AggregateTable(u)

SpecBreakdown == Init /\ [][NextBreakdown]_vars

\* The outlier rule on one category of 3 to MaxInCategory records, of any
\* mix of the amounts, next to up to two records of another category.
MaxInCategory == 6

CategoryAmounts == <<0, 1000, 2000, 10000, 1000000>>

InitSmallCategory ==
    \E count \in [1..Len(CategoryAmounts) -> 0..MaxInCategory], ncafe \in 0..2 :
        LET inputs == Concat([a \in 1..Len(CategoryAmounts) |->
                                Repeat(count[a],
                                       Input(D0, "expense", CategoryAmounts[a], "dining"))])
                      \o Repeat(ncafe, Input(D30, "expense", 1000, "cafe"))
        IN  /\ Len(inputs) - ncafe \in 3..MaxInCategory
            /\ transactions = RowsOf(1, inputs)
            /\ next_id = Len(inputs) + 1
            /\ budgets = <<>>
            /\ next_budget_id = 1
            /\ today = DaysFromCivil(<<2024, 3, 15>>)
            /\ result = NoResult
            /\ AccountsSeeded

NextSmallCategory == \E u \in UserIds : Analyze(u, Nothing)

SpecSmallCategory == InitSmallCategory /\ [][NextSmallCategory]_vars

\* The month-over-month rule on expenses of three months that are not
\* adjacent, with incomes in months that hold no expense.
MaxGapTx == 4

APRIL5 == <<2024, 4, 5>>

JUNE10 == <<2024, 6, 10>>

GapInputs ==
    {Input(D0, "expense", 100000, "dining"), Input(D61, "expense", 50000, "dining"),
     Input(D140, "expense", 130000, "cafe"), Input(APRIL5, "income", 300000, "salary"),
     Input(JUNE10, "income", 300000, "salary")}

NextGap ==
    \/ /\ Len(transactions) < MaxGapTx
       /\ \E u \in UserIds, in \in GapInputs : AddInput(u, in)
    \/ \E u \in UserIds : Analyze(u, Nothing)

SpecGap == Init /\ [][NextGap]_vars

\* The accounts from a new database file on: init_db, registrations, role
\* changes, and the sessions' logins, logouts and admin page visits.
InitAccounts ==
    /\ transactions = <<>>
    /\ next_id = 1
    /\ budgets = <<>>
    /\ next_budget_id = 1
    /\ today = DaysFromCivil(<<2024, 3, 15>>)
    /\ result = NoResult
    /\ users = <<>>
    /\ next_user_id = 1
    /\ categories = <<>>
    /\ session = [s \in Sessions |-> Nothing]

\* <<username, password>> of the registration form.
Registrations == {<<"bob", "pw">>, <<AdminName, "pw">>}

\* <<username, password>> of the login form.
Credentials == {<<AdminName, AdminPassword>>, <<"bob", "pw">>, <<"bob", "wrong">>}

\* The ids update_user_role is called with, one of them of no account.
MaxUserId == 3

NextAccounts ==
    \/ InitDb
    \/ \E r \in Registrations : RegisterUser(r[1], r[2])
    \/ \E id \in 1..MaxUserId, role \in {"user", "admin", "guest"} : UpdateUserRole(id, role)
    \/ \E s \in Sessions, c \in Credentials : Login(s, c[1], c[2])
    \/ \E s \in Sessions : Logout(s)
    \/ \E s \in Sessions : AdminPage(s)
    \/ \E s \in Sessions, id \in 1..MaxUserId, role \in {"user", "admin"} :
            ChangeRole(s, id, role)

SpecAccounts == InitAccounts /\ [][NextAccounts]_vars

\* The two accounts of InitStore.
StoreUserIds == {1, 2}

\* The store with the accounts of two users.
InitStore ==
    /\ transactions = <<>>
    /\ next_id = 1
    /\ budgets = <<>>
    /\ next_budget_id = 1
    /\ today = DaysFromCivil(<<2024, 3, 15>>)
    /\ result = NoResult
    /\ AccountsOfTwo

\* The transaction store of two users: add, update, delete, the admin's
\* delete, and the two queries.
MaxStoreTx == 2

StoreDates == {D0, D61}

StoreAmounts == {2000}

\* None, the empty string and a date as a bound of get_transactions.
DateBounds == {Nothing, Some(<<>>), Some(D30)}

NextStore ==
    \/ /\ next_id <= MaxStoreTx
       /\ \E u \in StoreUserIds, d \in StoreDates :
            AddTransaction(u, d, "expense", 1000, "dining", "card")
    \/ \E u \in StoreUserIds, id \in 1..MaxStoreTx, d \in StoreDates, a \in StoreAmounts :
            UpdateTransaction(u, id, d, "expense", a, "dining", "card")
    \/ \E u \in StoreUserIds, id \in 1..MaxStoreTx : DeleteTransaction(u, id)
    \/ \E id \in 1..MaxStoreTx : AdminDeleteTransaction(id)
    \/ \E u \in StoreUserIds, id \in 1..MaxStoreTx : GetTransactionById(u, id)
    \/ \E u \in StoreUserIds, start_date \in DateBounds, end_date \in DateBounds :
            GetTransactions(u, start_date, end_date)

SpecStore == InitStore /\ [][NextStore]_vars

\* The budget store of two users: set_budget with a category name, the
\* empty string or None, and delete_budget.
\* set_budget calls.
MaxBudgetCalls == 3

\* <<month, category>> arguments of set_budget.
BudgetKeys ==
    {<<202403, "">>, <<202403, "dining">>, <<202404, "">>, <<202403, None>>}

BudgetAmounts == {100000, 200000}

NextBudgetStore ==
    \/ /\ next_budget_id <= MaxBudgetCalls
       /\ \E u \in StoreUserIds, k \in BudgetKeys, a \in BudgetAmounts :
            SetBudget(u, k[1], k[2], a)
    \/ \E u \in StoreUserIds, id \in 1..MaxBudgetCalls :
            /\ \E i \in 1..Len(budgets) : budgets[i].id = id
            /\ DeleteBudget(u, id)

SpecBudgetStore == InitStore /\ [][NextBudgetStore]_vars

----------------------------------------------------------------------------
(* What the claims compare the results with: sums and counts taken straight
   from the stored rows of the analysed user. *)

\* The stored rows of the user whose analysis result holds, within the
\* period of that analysis.
Stored ==
    SelectSeq(transactions, LAMBDA r :
        /\ r.user_id = result.user_id
        /\ (result.start_date # Nothing =>
                DateText(r.date) >= DateText(result.start_date[1]))
        /\ (result.end_date # Nothing =>
                DateText(r.date) <= DateText(result.end_date[1])))

RECURSIVE AmountOver(_, _)
AmountOver(rows, I) ==
    IF I = {} THEN 0
    ELSE LET i == CHOOSE x \in I : TRUE
         IN  rows[i].amount + AmountOver(rows, I \ {i})

OfType(t) == {i \in 1..Len(Stored) : Stored[i].type = t}

StoredExpense == OfType("expense")

StoredIncome == OfType("income")

StoredOther == (1..Len(Stored)) \ (StoredExpense \cup StoredIncome)

ExpenseCategories == {Stored[i].category : i \in StoredExpense}

ExpenseOf(cat) == AmountOver(Stored, {i \in StoredExpense : Stored[i].category = cat})

InsightsOf(rule) == SelectSeq(result.insights, LAMBDA x : x.rule = rule)

----------------------------------------------------------------------------
(* Claims on get_summary *)

\* C8 as stated: in every summary tx_count = expense_count + income_count,
\* whatever the types of the records.
C8_CountsAddUp ==
    result.done =>
        result.summary.tx_count
            = result.summary.expense_count + result.summary.income_count

\* C8 amended: tx_count counts every record, expense_count and income_count
\* those of type 'expense' and 'income'; so tx_count = expense_count +
\* income_count + the number of records of any other type, and the two sides
\* of C8 agree exactly when every record is an income or an expense.
C8_CountsAddUpWithOthers ==
    result.done =>
        /\ result.summary.tx_count = Len(Stored)
        /\ result.summary.expense_count = Cardinality(StoredExpense)
        /\ result.summary.income_count = Cardinality(StoredIncome)
        /\ result.summary.tx_count
            = result.summary.expense_count + result.summary.income_count
              + Cardinality(StoredOther)

C8_Witness ==
    /\ result.done
    /\ StoredOther # {}
    /\ StoredExpense # {}
    /\ StoredIncome # {}

\* C9: for a non-empty record set, net = total_income - total_expense, the
\* two totals being the sums of amount over the income and the expense
\* records.
C9_NetIsIncomeMinusExpense ==
    (result.done /\ Stored # <<>>) =>
        /\ result.summary.total_income = AmountOver(Stored, StoredIncome)
        /\ result.summary.total_expense = AmountOver(Stored, StoredExpense)
        /\ result.summary.net
            = AmountOver(Stored, StoredIncome) - AmountOver(Stored, StoredExpense)

C9_Witness ==
    /\ result.done
    /\ StoredIncome # {}
    /\ Cardinality(StoredExpense) >= 2
    /\ StoredOther # {}
    /\ result.summary.net < 0

\* C10: top_categories holds min(3, number of expense categories) entries,
\* each an expense category with its summed expense, in descending order of
\* the sum, and no category left out has a strictly larger sum than a listed
\* one.
C10_TopCategories ==
    result.done =>
        LET top == result.summary.top_categories
            listed == {top[i][1] : i \in 1..Len(top)}
        IN  /\ Len(top) = Min(3, Cardinality(ExpenseCategories))
            /\ Len(top) <= 3
            /\ Cardinality(listed) = Len(top)
            /\ \A i \in 1..Len(top) :
                    /\ top[i][1] \in ExpenseCategories
                    /\ top[i][2] = ExpenseOf(top[i][1])
            /\ \A i \in 1..(Len(top) - 1) : top[i][2] >= top[i + 1][2]
            /\ \A c \in ExpenseCategories \ listed :
                    \A i \in 1..Len(top) : ExpenseOf(c) <= top[i][2]

C10_Witness ==
    /\ result.done
    /\ Cardinality(ExpenseCategories) = 4
    /\ Len(result.summary.top_categories) = 3
    /\ result.summary.top_categories[1][1] = "transport"

----------------------------------------------------------------------------
(* Claims on the outlier and the recurring-expense rule *)

\* The stored rows are all expenses of category "dining": 4 of amount 10,000
\* and 1 of amount 50,000.
DiningExample ==
    /\ Len(Stored) = 5
    /\ \A i \in 1..5 : Stored[i].type = "expense" /\ Stored[i].category = "dining"
    /\ Cardinality({i \in 1..5 : Stored[i].amount = 10000}) = 4
    /\ Cardinality({i \in 1..5 : Stored[i].amount = 50000}) = 1

\* C2 as stated: on the dining example the outlier rule gives exactly one
\* insight, which names the 50,000 transaction.
C2_DiningExampleFlagged ==
    (result.done /\ DiningExample) =>
        /\ Len(InsightsOf("outlier")) = 1
        /\ InsightsOf("outlier")[1].amount = 50000

\* C2 amended: on the dining example the outlier rule gives no insight:
\* mean = 18,000 and the sample standard deviation is about 17,889, so
\* 50,000 does not exceed mean + 2 * std (about 53,777).
C2_DiningExampleNotFlagged ==
    (result.done /\ DiningExample) => InsightsOf("outlier") = <<>>

C2_Witness ==
    /\ result.done
    /\ DiningExample
    /\ Len(InsightsOf("top_category")) = 1

\* The stored expense rows of category "subscription".
StoredSubscription ==
    {i \in StoredExpense : Stored[i].category = "subscription"}

\* The subscription expenses are 9900 on each of the given dates, one record
\* per date, and nothing else.
SubscriptionOn(dates) ==
    /\ Cardinality(StoredSubscription) = Cardinality(dates)
    /\ {Stored[i].date : i \in StoredSubscription} = dates
    /\ \A i \in StoredSubscription : Stored[i].amount = 9900

\* The recurrence insights of the result that name a category.
RecurringFor(cat) == SelectSeq(InsightsOf("recurring"), LAMBDA x : x.category = cat)

\* C3 as stated: two expense records in "subscription", 9900 and 9900, 30
\* days apart (2024-01-01 and 2024-01-31), give exactly one recurrence
\* insight for that category.
C3_PairGivesOneInsight ==
    (result.done /\ Len(Stored) = 2 /\ SubscriptionOn({D0, D30})) =>
        Len(RecurringFor("subscription")) = 1

\* C3 amended: the two records give exactly one recurrence insight for the
\* category when the table holds at least 4 expense records overall (and
\* fewer than 3 recurrence insights of other categories fill the list), and
\* none when it holds fewer than 4: on the two records alone the rule
\* reports nothing.
C3_PairNeedsFourExpenses ==
    (result.done /\ SubscriptionOn({D0, D30})) =>
        /\ Cardinality(StoredExpense) < 4 => InsightsOf("recurring") = <<>>
        /\ Len(RecurringFor("subscription")) <= 1
        /\ (/\ Cardinality(StoredExpense) >= 4
            /\ Len(InsightsOf("recurring")) - Len(RecurringFor("subscription")) < 3)
                => /\ Len(RecurringFor("subscription")) = 1
                   /\ RecurringFor("subscription")[1].amount = 9900

C3_Witness ==
    /\ result.done
    /\ SubscriptionOn({D0, D30})
    /\ Cardinality(StoredExpense) = 4
    /\ Len(RecurringFor("subscription")) = 1

\* C4: no two recurrence insights of one call share the key (category,
\* amount rounded down to a multiple of 1000); so a third 9900 record 31 days
\* after a detected 9900 / 9900 pair adds no second insight.
C4_OneInsightPerKey ==
    result.done =>
        LET rec == InsightsOf("recurring")
        IN  /\ \A i, j \in 1..Len(rec) :
                    (/\ rec[i].category = rec[j].category
                     /\ rec[i].amount \div 1000 = rec[j].amount \div 1000) => i = j
            /\ (SubscriptionOn({D0, D30, D61}) /\ Cardinality(StoredExpense) >= 4)
                    => Len(RecurringFor("subscription")) = 1

C4_Witness ==
    /\ result.done
    /\ SubscriptionOn({D0, D30, D61})
    /\ Cardinality(StoredExpense) >= 4
    /\ Len(InsightsOf("recurring")) = 1

----------------------------------------------------------------------------
(* Claims on the month-over-month, budget and savings-rate rules and on the
   empty table *)

\* The "YYYY-MM" of a stored ISO date, read off the string.
MonthOfText(iso) == iso[1] * 100 + iso[2]

ExpenseMonths == {MonthOfText(Stored[i].date) : i \in StoredExpense}

ExpenseIn(month) ==
    AmountOver(Stored, {i \in StoredExpense : MonthOfText(Stored[i].date) = month})

\* The latest month with expense records, and the latest before it.
LatestMonth == SetMax(ExpenseMonths)

PreviousMonth == SetMax(ExpenseMonths \ {LatestMonth})

\* C5: with expenses in at least two months and a previous-month total > 0
\* the month-over-month rule gives exactly one insight: 'warning' if
\* change_pct > 20, 'success' if change_pct < -10, else 'info' (so exactly 20
\* and exactly -10 are 'info'); otherwise it gives none.  100,000 -> 130,000
\* warns, 100,000 -> 85,000 is a success.
C5_MonthOverMonth ==
    result.done =>
        LET ins == InsightsOf("month")
        IN  IF Cardinality(ExpenseMonths) >= 2 /\ ExpenseIn(PreviousMonth) > 0
            THEN LET cur == ExpenseIn(LatestMonth)
                     prev == ExpenseIn(PreviousMonth)
                 IN  /\ Len(ins) = 1
                     /\ (cur - prev) * 100 > 20 * prev => ins[1].type = "warning"
                     /\ (cur - prev) * 100 < (-10) * prev => ins[1].type = "success"
                     /\ (/\ (cur - prev) * 100 <= 20 * prev
                         /\ (cur - prev) * 100 >= (-10) * prev) => ins[1].type = "info"
                     /\ (prev = 100000 /\ cur = 130000) => ins[1].type = "warning"
                     /\ (prev = 100000 /\ cur = 85000) => ins[1].type = "success"
                     /\ (prev = 100000 /\ cur = 120000) => ins[1].type = "info"
                     /\ (prev = 100000 /\ cur = 90000) => ins[1].type = "info"
            ELSE ins = <<>>

C5_Witness ==
    /\ result.done
    /\ Cardinality(ExpenseMonths) = 2
    /\ ExpenseIn(PreviousMonth) = 100000
    /\ ExpenseIn(LatestMonth) = 120000
    /\ Len(InsightsOf("month")) = 1
    /\ InsightsOf("month")[1].type = "info"

\* The current-month expense a budget is measured against: of its category,
\* or of every category when the budget's category is empty.
SpentFor(budget) ==
    AmountOver(Stored, {i \in StoredExpense :
        /\ MonthOfText(Stored[i].date) = YearMonth(today)
        /\ (budget.category # "" => Stored[i].category = budget.category)})

\* What C6 expects of one budget: "exceeded", "approaching" or "none".
ExpectedBudgetMsg(budget) ==
    IF budget.month # YearMonth(today) THEN "none"
    ELSE IF budget.budget_amount <= 0 THEN "none"
    ELSE IF SpentFor(budget) * 100 >= 100 * budget.budget_amount THEN "exceeded"
    ELSE IF SpentFor(budget) * 100 >= 80 * budget.budget_amount THEN "approaching"
    ELSE "none"

\* C6: each budget of the current calendar month gives exactly one 'warning'
\* when usage_pct >= 80 ("exceeded" from 100, "approaching" below) and none
\* below 80; a budget of another month gives none.  Budget 500,000: spent
\* 500,000 is "exceeded", 450,000 "approaching", 300,000 nothing.
C6_BudgetWarnings ==
    result.done =>
        LET ins == InsightsOf("budget")
            due == SelectSeq(result.budgets, LAMBDA b : ExpectedBudgetMsg(b) # "none")
            named(b, msg) == {p \in 1..Len(ins) :
                                ins[p].category = b.category /\ ins[p].msg = msg}
        IN  /\ Len(ins) = Len(due)
            /\ \A p \in 1..Len(due) :
                    /\ ins[p].type = "warning"
                    /\ ins[p].msg = ExpectedBudgetMsg(due[p])
                    /\ ins[p].category = due[p].category
            /\ \A p \in 1..Len(result.budgets) :
                    LET b == result.budgets[p]
                    IN  (b.month = YearMonth(today) /\ b.budget_amount = 500000) =>
                            /\ SpentFor(b) = 500000 =>
                                    Cardinality(named(b, "exceeded")) = 1
                            /\ SpentFor(b) = 450000 =>
                                    Cardinality(named(b, "approaching")) = 1
                            /\ SpentFor(b) = 300000 =>
                                    named(b, "exceeded") \cup named(b, "approaching") = {}

C6_Witness ==
    /\ result.done
    /\ Len(result.budgets) = 2
    /\ \E p, q \in 1..2 :
            /\ result.budgets[p].month = YearMonth(today)
            /\ result.budgets[p].budget_amount = 500000
            /\ SpentFor(result.budgets[p]) = 400000
            /\ result.budgets[q].month # YearMonth(today)
    /\ Len(InsightsOf("budget")) = 1
    /\ InsightsOf("budget")[1].msg = "approaching"

\* C7: the savings-rate rule gives at most one insight, and only when both
\* totals are positive: 'success' if save_rate >= 30, 'info' if
\* 10 <= save_rate < 30, 'warning' if save_rate < 0, nothing for
\* 0 <= save_rate < 10 (save_rate = net / total_income * 100).
C7_SavingsRate ==
    result.done =>
        LET ins == InsightsOf("savings")
            inc == AmountOver(Stored, StoredIncome)
            exp == AmountOver(Stored, StoredExpense)
            net == inc - exp
        IN  /\ Len(ins) <= 1
            /\ ins # <<>> => (inc > 0 /\ exp > 0)
            /\ (inc > 0 /\ exp > 0) =>
                /\ net * 100 >= 30 * inc => (Len(ins) = 1 /\ ins[1].type = "success")
                /\ (net * 100 >= 10 * inc /\ net * 100 < 30 * inc)
                        => (Len(ins) = 1 /\ ins[1].type = "info")
                /\ net < 0 => (Len(ins) = 1 /\ ins[1].type = "warning")
                /\ (net >= 0 /\ net * 100 < 10 * inc) => ins = <<>>

C7_Witness ==
    /\ result.done
    /\ AmountOver(Stored, StoredIncome) = 100000
    /\ AmountOver(Stored, StoredExpense) = 70000
    /\ Len(InsightsOf("savings")) = 1
    /\ InsightsOf("savings")[1].type = "success"

\* C1: on an empty table generate_insights returns exactly one insight, of
\* kind 'info', and no rule contributes anything, whatever the budgets.
C1_EmptyTable ==
    (result.done /\ Stored = <<>>) =>
        /\ Len(result.insights) = 1
        /\ result.insights[1].type = "info"
        /\ result.insights[1].rule = "empty"
        /\ \A rule \in {"top_category", "month", "budget", "outlier",
                        "recurring", "savings"} : InsightsOf(rule) = <<>>

C1_Witness ==
    /\ result.done
    /\ Stored = <<>>
    /\ \E p \in 1..Len(result.budgets) :
            /\ result.budgets[p].month = YearMonth(today)
            /\ result.budgets[p].budget_amount = 500000
    /\ Len(result.insights) = 1

----------------------------------------------------------------------------
(* Claims on the daily average *)

\* The day ordinals of the analysed rows.
StoredDays == {DaysFromCivil(Stored[i].date) : i \in 1..Len(Stored)}

\* C11: daily_avg_expense is total_expense divided by the number of days
\* from the earliest to the latest date of all analysed records, both ends
\* counted and incomes included, whatever period was asked for; the divisor
\* is at least 1.  With no expense record daily_avg_expense is 0 and
\* top_categories is empty.
C11_DailyAverage ==
    result.done =>
        LET avg == result.summary.daily_avg_expense
        IN  IF StoredExpense = {}
            THEN /\ avg.num = 0
                 /\ result.summary.top_categories = <<>>
            ELSE /\ avg.num = AmountOver(Stored, StoredExpense)
                 /\ avg.den = Cardinality(SetMin(StoredDays)..SetMax(StoredDays))
                 /\ avg.den >= 1

\* An analysis whose latest record is an income, over a period longer than
\* the days the records span.
C11_Witness ==
    /\ result.done
    /\ StoredExpense # {}
    /\ \E k \in StoredIncome :
            \A i \in StoredExpense :
                DaysFromCivil(Stored[k].date) > DaysFromCivil(Stored[i].date)
    /\ result.summary.daily_avg_expense.den
            < (DaysFromCivil(result.end_date[1]) - DaysFromCivil(result.start_date[1])) + 1
    /\ result.summary.daily_avg_expense.den > 31

----------------------------------------------------------------------------
(* Claims on the pipeline as a whole *)

\* The table the analysis was made on.
StoredTable ==
    transactions_to_dataframe(
        get_transactions(result.user_id, result.start_date, result.end_date))

RuleOrder == <<"top_category", "month", "budget", "outlier", "recurring", "savings">>

RuleRank(rule) == CHOOSE i \in 1..Len(RuleOrder) : RuleOrder[i] = rule

\* C12: for a non-empty table the list is the output of the top-category
\* notice, then of the month-over-month trend, the budget usage, the outlier
\* detection, the recurring-expense detection and the savings commentary,
\* each as the rule gave it: no insight of a later rule stands before one of
\* an earlier rule, and nothing is reordered or dropped across rules.
C12_RulesInOrder ==
    (result.done /\ Stored # <<>>) =>
        LET ins == result.insights
            summary == get_summary(StoredTable)
        IN  /\ \A i, j \in 1..Len(ins) :
                    i < j => RuleRank(ins[i].rule) <= RuleRank(ins[j].rule)
            /\ InsightsOf("top_category") = TopCategoryInsight(summary)
            /\ InsightsOf("month") = _month_comparison_insight(StoredTable)
            /\ InsightsOf("budget")
                    = (IF result.budgets # <<>>
                       THEN _budget_warning_insights(StoredTable, result.budgets, today)
                       ELSE <<>>)
            /\ InsightsOf("outlier") = _outlier_insights(StoredTable)
            /\ InsightsOf("recurring") = _recurring_expense_insights(StoredTable)
            /\ InsightsOf("savings") = SavingsInsight(summary)
            /\ Len(ins) = Len(InsightsOf("top_category")) + Len(InsightsOf("month"))
                            + Len(InsightsOf("budget")) + Len(InsightsOf("outlier"))
                            + Len(InsightsOf("recurring")) + Len(InsightsOf("savings"))

\* An analysis in which every one of the six rules speaks, the outlier and
\* the recurring rule more than once.
C12_Witness ==
    /\ result.done
    /\ \A r \in 1..Len(RuleOrder) : InsightsOf(RuleOrder[r]) # <<>>
    /\ Len(InsightsOf("outlier")) >= 2
    /\ Len(InsightsOf("recurring")) >= 2

\* C13: one call gives at most 3 outlier insights and at most 3
\* recurring-expense insights, however many transactions and categories meet
\* the conditions of the two rules.
C13_AtMostThree ==
    result.done =>
        /\ Len(InsightsOf("outlier")) <= 3
        /\ Len(InsightsOf("recurring")) <= 3

\* An analysis of four categories that each hold an outlier and a monthly
\* repeat: four candidates per rule, three insights per rule.
C13_Witness ==
    /\ result.done
    /\ \A c \in 1..Len(PipelineCategories) :
            \E i \in StoredExpense :
                Stored[i].category = PipelineCategories[c] /\ Stored[i].amount = 50000
    /\ Len(OutlierCandidates(StoredTable)) = 4
    /\ Len(RecurringCandidates(StoredTable)) = 4
    /\ Len(InsightsOf("outlier")) = 3
    /\ Len(InsightsOf("recurring")) = 3

----------------------------------------------------------------------------
(* Claims on the conditions of the outlier and the recurring-expense rule *)

\* The analysed expense rows of a category, and their amounts in thousands
\* (the inputs are whole thousands; the squares below stay small).
ExpenseRowsOf(cat) == {i \in StoredExpense : Stored[i].category = cat}

RECURSIVE SumOver(_, _)
SumOver(f, I) ==
    IF I = {} THEN 0
    ELSE LET i == CHOOSE x \in I : TRUE
         IN  f[i] + SumOver(f, I \ {i})

Thousands == [i \in 1..Len(Stored) |-> Stored[i].amount \div 1000]

ThousandsSquared == [i \in 1..Len(Stored) |-> Thousands[i] * Thousands[i]]

\* n * (n - 1) times the sample variance of the category's amounts.
ScaledVariance(cat) ==
    LET I == ExpenseRowsOf(cat)
        n == Cardinality(I)
    IN  n * SumOver(ThousandsSquared, I) - SumOver(Thousands, I) * SumOver(Thousands, I)

\* amount > mean + 2 * std: with d = n * amount - sum, d > 0 and
\* d^2 / n^2 > 4 * variance.
AboveMeanPlusTwoStd(i) ==
    LET I == ExpenseRowsOf(Stored[i].category)
        n == Cardinality(I)
        d == n * Thousands[i] - SumOver(Thousands, I)
    IN  d > 0 /\ d * d * (n - 1) > 4 * n * ScaledVariance(Stored[i].category)

AtLeastTwiceMean(i) ==
    LET I == ExpenseRowsOf(Stored[i].category)
    IN  Cardinality(I) * Thousands[i] >= 2 * SumOver(Thousands, I)

\* The transactions the claim says are flagged.
ShouldBeFlagged ==
    IF Cardinality(StoredExpense) < 5 THEN {}
    ELSE {i \in StoredExpense :
            /\ Cardinality(ExpenseRowsOf(Stored[i].category)) >= 3
            /\ ScaledVariance(Stored[i].category) # 0
            /\ AboveMeanPlusTwoStd(i)
            /\ AtLeastTwiceMean(i)}

\* C14: with fewer than 5 expense records nothing is flagged; otherwise the
\* outlier rule, before its cut to 3, flags exactly the expense transactions
\* whose category has at least 3 expense records and a non-zero standard
\* deviation and whose amount is above mean + 2 * std and at least twice the
\* mean; every flagged transaction gives one insight, naming its category,
\* amount and date.
C14_OutlierConditions ==
    result.done =>
        LET flagged == OutlierCandidates(StoredTable)
            named(x) == {i \in ShouldBeFlagged :
                            /\ Stored[i].category = x.category
                            /\ Stored[i].amount = x.amount
                            /\ DaysFromCivil(Stored[i].date) = x.date}
            same(x) == {k \in 1..Len(flagged) :
                            /\ flagged[k].category = x.category
                            /\ flagged[k].amount = x.amount
                            /\ flagged[k].date = x.date}
        IN  /\ Len(flagged) = Cardinality(ShouldBeFlagged)
            /\ \A k \in 1..Len(flagged) :
                    Cardinality(named(flagged[k])) = Cardinality(same(flagged[k]))
            /\ InsightsOf("outlier") = Head3(flagged)

\* An analysis that flags two transactions of one category, beside a
\* category of fewer than 3 records.
C14_Witness ==
    /\ result.done
    /\ Cardinality(ShouldBeFlagged) = 2
    /\ Len(InsightsOf("outlier")) = 2
    /\ \E i \in StoredExpense : Cardinality(ExpenseRowsOf(Stored[i].category)) < 3

\* The place of the analysed expense row i among the rows of its category in
\* ascending order of date (rows of one date in the order they were stored).
PlaceInCategory(i) ==
    1 + Cardinality({k \in ExpenseRowsOf(Stored[i].category) :
            \/ DaysFromCivil(Stored[k].date) < DaysFromCivil(Stored[i].date)
            \/ (Stored[k].date = Stored[i].date /\ k < i)})

\* The pairs of row ids the claim says are recurrence candidates.
ShouldBeCandidates ==
    IF Cardinality(StoredExpense) < 4 THEN {}
    ELSE {<<Stored[i].id, Stored[j].id>> : <<i, j>> \in
            {q \in StoredExpense \X StoredExpense :
                /\ Stored[q[1]].category = Stored[q[2]].category
                /\ PlaceInCategory(q[1]) < PlaceInCategory(q[2])
                /\ PlaceInCategory(q[2]) <= PlaceInCategory(q[1]) + 4
                /\ Stored[q[1]].amount > 0
                /\ 5 * Abs(Stored[q[1]].amount - Stored[q[2]].amount)
                        <= Stored[q[1]].amount
                /\ DaysFromCivil(Stored[q[2]].date) - DaysFromCivil(Stored[q[1]].date) >= 25
                /\ DaysFromCivil(Stored[q[2]].date) - DaysFromCivil(Stored[q[1]].date) <= 35}}

----------------------------------------------------------------------------
(* Claims on the top-category notice *)

\* C16: when the table has an expense record, the list holds exactly one
\* top-category insight, of type 'info', as its first element; it names a
\* category whose summed expense no other category exceeds, and its
\* percentage is that sum / total_expense * 100, or 0 when total_expense is
\* 0.  Without an expense record there is no top-category insight.
C16_TopCategoryNotice ==
    result.done =>
        LET tops == InsightsOf("top_category")
            total == AmountOver(Stored, StoredExpense)
        IN  IF StoredExpense = {} THEN tops = <<>>
            ELSE /\ Len(tops) = 1
                 /\ result.insights[1] = tops[1]
                 /\ tops[1].type = "info"
                 /\ tops[1].category \in ExpenseCategories
                 /\ \A c \in ExpenseCategories : ExpenseOf(c) <= ExpenseOf(tops[1].category)
                 /\ tops[1].amount = ExpenseOf(tops[1].category)
                 /\ tops[1].pct = (IF total > 0
                                   THEN Ratio(ExpenseOf(tops[1].category) * 100, total)
                                   ELSE Ratio(0, 1))

\* An analysis of two expense categories and an income: the category of the
\* larger sum is not the one of the largest single expense, and the notice
\* is followed by another insight.
C16_Witness ==
    /\ result.done
    /\ Cardinality(ExpenseCategories) = 2
    /\ StoredIncome # {}
    /\ Len(result.insights) >= 2
    /\ result.insights[1].rule = "top_category"
    /\ \E i \in StoredExpense :
            /\ Stored[i].category # result.insights[1].category
            /\ \A k \in StoredExpense : Stored[k].amount <= Stored[i].amount

----------------------------------------------------------------------------
(* Claims on what the insight list depends on *)

\* Days on which the same call could be made as well.
CallDays == {<<2024, 3, 1>>, <<2024, 3, 31>>, <<2024, 4, 1>>, <<2024, 4, 30>>}

\* generate_insights on the analysed table and budgets, called on day d.
InsightsOn(d) == generate_insights(StoredTable, result.budgets, DaysFromCivil(d))

NotBudget(ins) == SelectSeq(ins, LAMBDA x : x.rule # "budget")

\* C17 as stated: for the same records and the same budgets the list is the
\* same at every invocation, whatever the system date at the time of the
\* call.
C17_SameListOnEveryDay ==
    result.done => \A d \in CallDays : InsightsOn(d) = result.insights

\* C17 amended: for the same records and the same budgets the list depends on
\* the system date only through its calendar month, and only in the budget
\* insights: two calls in the same month return the same list, and two calls
\* in different months return lists that agree outside the budget insights.
C17_SameListWithinMonth ==
    result.done =>
        \A d \in CallDays :
            /\ NotBudget(InsightsOn(d)) = NotBudget(result.insights)
            /\ YearMonth(DaysFromCivil(d)) = YearMonth(today)
                    => InsightsOn(d) = result.insights

\* An analysis with a budget insight that the same call a month later would
\* not give, and that the same call on another day of the month gives too.
C17_Witness ==
    /\ result.done
    /\ InsightsOf("budget") # <<>>
    /\ \E d \in CallDays :
            /\ YearMonth(DaysFromCivil(d)) # YearMonth(today)
            /\ InsightsOn(d) # result.insights
    /\ \E d \in CallDays :
            /\ DaysFromCivil(d) # today
            /\ YearMonth(DaysFromCivil(d)) = YearMonth(today)
            /\ InsightsOn(d) = result.insights

----------------------------------------------------------------------------
(* Claims on failures *)

\* C18: transactions_to_dataframe fails with an error, and returns no
\* table, whenever the date of a record cannot be parsed as a calendar date,
\* an empty or missing date included; it never returns a table with a row
\* whose date is invalid or null.
C18_UnparsableDateFails ==
    result.done =>
        /\ (\E i \in 1..Len(Stored) : ~IsCalendarDate(Stored[i].date))
                => (result.error # "" /\ result.table = <<>>)
        /\ \A k \in 1..Len(result.table) : result.table[k].date # NaT

\* What the build does instead: it fails exactly when a date is a non-empty
\* string that names no day; a record with an empty date becomes a row with
\* a null date.
C18_EmptyDateBecomesNull ==
    result.done =>
        /\ (result.error # "")
                <=> (\E i \in 1..Len(Stored) :
                        Stored[i].date # <<>> /\ ~IsCalendarDate(Stored[i].date))
        /\ result.error = "" =>
                /\ Len(result.table) = Len(Stored)
                /\ Cardinality({k \in 1..Len(result.table) : result.table[k].date = NaT})
                        = Cardinality({i \in 1..Len(Stored) : Stored[i].date = <<>>})

\* A build that returned a table with a null date beside a dated row.
C18_Witness ==
    /\ result.done
    /\ result.error = ""
    /\ \E k \in 1..Len(result.table) : result.table[k].date = NaT
    /\ \E k \in 1..Len(result.table) : result.table[k].date = DaysFromCivil(D0)

\* The budget rule fails on the analysed table: a budget of the current month
\* has an amount that is no number, and the current month has an expense.
BudgetRuleFails ==
    /\ \E i \in StoredExpense : MonthOfText(Stored[i].date) = YearMonth(today)
    /\ \E b \in 1..Len(result.budgets) :
            /\ result.budgets[b].month = YearMonth(today)
            /\ result.budgets[b].amount_type = "text"

\* C19: when one rule of the pipeline raises during generate_insights, the
\* other rules still run and the returned list holds their outputs, without
\* the output of the failing rule; the call does not abort.
C19_OtherRulesStillRun ==
    (result.done /\ BudgetRuleFails) =>
        /\ result.error = ""
        /\ result.insights = RunRules(StoredTable, <<>>, today)

\* What the call does instead: the exception of the rule leaves
\* generate_insights, and no list is returned.
C19_FailureAbortsCall ==
    (result.done /\ BudgetRuleFails) =>
        /\ result.error = "TypeError"
        /\ result.insights = <<>>

\* A call that the budget rule aborted although three other rules have an
\* insight to give.
C19_Witness ==
    /\ result.done
    /\ BudgetRuleFails
    /\ result.error = "TypeError"
    /\ Len(RunRules(StoredTable, <<>>, today)) >= 3

\* The breakdowns of expenses are all empty.
ExpenseChartsEmpty ==
    /\ result.charts.by_category = <<>>
    /\ result.charts.by_date = <<>>
    /\ result.charts.by_payment = <<>>
    /\ result.charts.by_dayofweek = <<>>

\* C20 as stated: on the table of an empty record list, and on a table
\* without expense records, every aggregation function returns an empty
\* result, get_summary the all-zero summary, and none raises.
C20_EmptyOrZeroWithoutExpenses ==
    (result.done /\ StoredExpense = {}) =>
        /\ result.error = ""
        /\ ExpenseChartsEmpty
        /\ result.charts.by_month = <<>>
        /\ result.summary = EmptySummary

\* C20 amended: none of the six functions raises on such a table.  On the
\* table of an empty record list every breakdown is empty and the summary is
\* all zero.  On a non-empty table without expense records the four expense
\* breakdowns are empty and the summary has total_expense 0,
\* daily_avg_expense 0, no top_categories and expense_count 0, while
\* total_income, net, income_count and tx_count are those of the records and
\* the monthly breakdown has a row for every month and type that has a
\* record.
C20_EmptyExpenseParts ==
    (result.done /\ StoredExpense = {}) =>
        /\ result.error = ""
        /\ ExpenseChartsEmpty
        /\ result.summary.total_expense = 0
        /\ result.summary.daily_avg_expense.num = 0
        /\ result.summary.top_categories = <<>>
        /\ result.summary.expense_count = 0
        /\ result.summary.total_income = AmountOver(Stored, StoredIncome)
        /\ result.summary.net = AmountOver(Stored, StoredIncome)
        /\ result.summary.income_count = Cardinality(StoredIncome)
        /\ result.summary.tx_count = Len(Stored)
        /\ Len(result.charts.by_month)
                = Cardinality({<<MonthOfText(Stored[i].date), Stored[i].type>> :
                                i \in 1..Len(Stored)})
        /\ Stored = <<>> =>
                /\ result.summary = EmptySummary
                /\ result.charts.by_month = <<>>

\* The functions applied to a table of incomes of two months.
C20_Witness ==
    /\ result.done
    /\ StoredExpense = {}
    /\ Cardinality(StoredIncome) = 2
    /\ Len(result.charts.by_month) = 2
    /\ result.summary.total_income = 12000

----------------------------------------------------------------------------
(* Claims on the grouped breakdowns *)

\* The weekday of a stored date, Monday = 0, counted from Monday 2024-01-01.
WeekdayOf(iso) == (DaysFromCivil(iso) - DaysFromCivil(<<2024, 1, 1>>)) % 7

ExpenseOnWeekday(d) == {i \in StoredExpense : WeekdayOf(Stored[i].date) = d}

ExpensePayments == {Stored[i].payment_method : i \in StoredExpense}

ExpenseDates == {DaysFromCivil(Stored[i].date) : i \in StoredExpense}

\* rows is one <<key, sum>> row per key, the sum taken over the stored
\* expenses of that key.
OneRowPerKey(rows, keys, SumOf(_)) ==
    /\ Len(rows) = Cardinality(keys)
    /\ {rows[p][1] : p \in 1..Len(rows)} = keys
    /\ \A p \in 1..Len(rows) : rows[p][2] = SumOf(rows[p][1])

\* C22: get_expense_by_category and get_expense_by_payment return one row
\* per category / payment method found among the expense records, holding
\* the sum of the expense amounts, in descending order of the amount;
\* get_expense_by_date returns one row per expense date, holding the sum of
\* that day's expenses, in ascending order of the date; incomes add to no
\* row.
C22_GroupedSums ==
    result.runs > 0 =>
        LET by_category == result.charts.by_category
            by_payment == result.charts.by_payment
            by_date == result.charts.by_date
            OfCategory(c) == AmountOver(Stored, {i \in StoredExpense : Stored[i].category = c})
            OfPayment(m) == AmountOver(Stored, {i \in StoredExpense : Stored[i].payment_method = m})
            OfDate(d) == AmountOver(Stored, {i \in StoredExpense : DaysFromCivil(Stored[i].date) = d})
        IN  /\ OneRowPerKey(by_category, ExpenseCategories, OfCategory)
            /\ \A p \in 2..Len(by_category) : by_category[p - 1][2] >= by_category[p][2]
            /\ OneRowPerKey(by_payment, ExpensePayments, OfPayment)
            /\ \A p \in 2..Len(by_payment) : by_payment[p - 1][2] >= by_payment[p][2]
            /\ OneRowPerKey(by_date, ExpenseDates, OfDate)
            /\ \A p \in 2..Len(by_date) : by_date[p - 1][1] < by_date[p][1]

\* Expenses entered out of date order, with a card income among them: cash
\* (4,500) comes before card (1,000), transport (1,500) before dining
\* (1,000), and the dates ascend.
C22_Witness ==
    /\ result.runs > 0
    /\ Len(Stored) = 4
    /\ Stored[1].date = D140
    /\ \E i \in StoredIncome : Stored[i].payment_method = "card"
    /\ result.charts.by_payment = <<(<<"cash", 4500>>), (<<"card", 1000>>)>>
    /\ result.charts.by_category = <<(<<"cafe", 3000>>), (<<"transport", 1500>>), (<<"dining", 1000>>)>>
    /\ result.charts.by_date = <<(<<DaysFromCivil(D0), 1000>>),
                                 (<<DaysFromCivil(SUNDAY), 1500>>),
                                 (<<DaysFromCivil(D140), 3000>>)>>

----------------------------------------------------------------------------
(* Claims on the store *)

SameBudgetKey(a, b) ==
    a.user_id = b.user_id /\ a.month = b.month /\ a.category = b.category

OneRowPerBudgetKey(rows) ==
    \A i, j \in 1..Len(rows) : SameBudgetKey(rows[i], rows[j]) => i = j

\* What a step may do to the budget rows: nothing, remove rows, add one row
\* of a key no row had, or give one row a new amount.
BudgetStep(before, after) ==
    \/ after = before
    \/ \E id \in {before[i].id : i \in 1..Len(before)} :
            after = SelectSeq(before, LAMBDA b : b.id # id)
    \/ /\ Len(after) = Len(before) + 1
       /\ SubSeq(after, 1, Len(before)) = before
       /\ \A i \in 1..Len(before) : ~SameBudgetKey(before[i], after[Len(after)])
    \/ /\ Len(after) = Len(before)
       /\ \E i \in 1..Len(before) :
            /\ after[i] = [before[i] EXCEPT !.budget_amount = after[i].budget_amount]
            /\ \A j \in 1..Len(before) : j # i => after[j] = before[j]

\* C24 as stated: after any set_budget and delete_budget calls a user has at
\* most one budget row per (month, category), and a set_budget on a key that
\* has a row gives that row the new amount, adds no row and leaves the other
\* rows as they were.
C24_OneBudgetPerKey ==
    /\ [](OneRowPerBudgetKey(budgets))
    /\ [][BudgetStep(budgets, budgets')]_vars

\* The same for the rows and calls whose category is a string, the empty
\* one included.
C24_OneBudgetPerNamedKey ==
    /\ [](OneRowPerBudgetKey(SelectSeq(budgets, LAMBDA b : b.category # None)))
    /\ [][(Len(budgets') > Len(budgets) => budgets'[Len(budgets')].category # None)
                => BudgetStep(budgets, budgets')]_vars

\* Two set_budget calls of one user with the month 2024-03 and the category
\* None have left two rows.
C24_Witness ==
    /\ Len(budgets) = 2
    /\ budgets[1].user_id = budgets[2].user_id
    /\ budgets[1].month = 202403 /\ budgets[2].month = 202403
    /\ budgets[1].category = None /\ budgets[2].category = None
    /\ next_budget_id = 3

\* a <= b for two date strings, compared as text: field by field for
\* zero-padded dates, the empty string before every date.
TextLE(a, b) ==
    \/ a = <<>>
    \/ /\ b # <<>>
       /\ \/ a[1] < b[1]
          \/ a[1] = b[1] /\ a[2] < b[2]
          \/ a[1] = b[1] /\ a[2] = b[2] /\ a[3] <= b[3]

\* A bound of get_transactions is given: neither None nor the empty string.
Given(bound) == bound # Nothing /\ bound[1] # <<>>

\* C25: whatever add, update and delete calls the users have made,
\* get_transactions(user_id, start_date, end_date) returns exactly the stored
\* transactions of that user whose date lies within the bounds that are
\* given, each once, and no transaction of another user.
C25_OwnRowsInRange ==
    result.call = "get_transactions" =>
        LET user_id == result.args[1]
            start_date == result.args[2]
            end_date == result.args[3]
            wanted == {i \in 1..Len(transactions) :
                        /\ transactions[i].user_id = user_id
                        /\ (Given(start_date) => TextLE(start_date[1], transactions[i].date))
                        /\ (Given(end_date) => TextLE(transactions[i].date, end_date[1]))}
        IN  /\ Len(result.rows) = Cardinality(wanted)
            /\ {result.rows[p] : p \in 1..Len(result.rows)}
                    = {transactions[i] : i \in wanted}
            /\ \A p \in 1..Len(result.rows) : result.rows[p].user_id = user_id

\* Two users hold a transaction each, one of them moved by an update to a
\* later date; the query of one user from 2024-01-31 on returns that user's
\* row only.
C25_Witness ==
    /\ result.call = "get_transactions"
    /\ result.args = <<2, Some(D30), Nothing>>
    /\ Len(transactions) = 2
    /\ transactions[1].user_id = 1 /\ transactions[1].date = D61
    /\ transactions[2].user_id = 2 /\ transactions[2].date = D61
    /\ transactions[2].amount = 2000
    /\ result.rows = <<transactions[2]>>

----------------------------------------------------------------------------
(* Claims on the sample sizes of the rules *)

\* C26: a category of 3, 4 or 5 expense records has none of its
\* transactions flagged by the outlier rule, whatever the amounts: an
\* outlier insight names a category of at least 6 expense records.
C26_NoOutlierBelowSix ==
    result.done =>
        \A p \in 1..Len(InsightsOf("outlier")) :
            Cardinality(ExpenseRowsOf(InsightsOf("outlier")[p].category)) >= 6

\* Four dining expenses of 1,000 and one of 1,000,000, five expenses in
\* all: the rule ran on the category and flagged nothing.
C26_Witness ==
    /\ result.done
    /\ Len(Stored) = 5
    /\ Cardinality(ExpenseRowsOf("dining")) = 5
    /\ \E i \in 1..5 : Stored[i].amount = 1000000
    /\ Cardinality({i \in 1..5 : Stored[i].amount = 1000}) = 4
    /\ InsightsOf("outlier") = <<>>
    /\ InsightsOf("top_category") # <<>>

\* C27: the month-over-month rule compares the two latest months that hold
\* expense records: its current month is the latest month with an expense,
\* its previous month the latest one before that with an expense, however
\* many months without expenses lie between them; months with incomes only
\* take no part.
C27_TwoLatestExpenseMonths ==
    result.done =>
        LET ins == InsightsOf("month")
        IN  /\ Len(ins) <= 1
            /\ ins # <<>> <=>
                    (Cardinality(ExpenseMonths) >= 2 /\ ExpenseIn(PreviousMonth) > 0)
            /\ ins # <<>> =>
                    /\ ins[1].date = LatestMonth
                    /\ ins[1].amount = ExpenseIn(LatestMonth)
                    /\ ins[1].pct.den = ExpenseIn(PreviousMonth)
                    /\ ins[1].pct.num
                        = (ExpenseIn(LatestMonth) - ExpenseIn(PreviousMonth)) * 100

\* Expenses in January and May, incomes in April and June: May (130,000) is
\* compared with January (100,000).
C27_Witness ==
    /\ result.done
    /\ ExpenseMonths = {202401, 202405}
    /\ {MonthOfText(Stored[i].date) : i \in StoredIncome} = {202404, 202406}
    /\ Len(InsightsOf("month")) = 1
    /\ InsightsOf("month")[1].date = 202405
    /\ InsightsOf("month")[1].pct = Ratio(3000000, 100000)
    /\ InsightsOf("month")[1].type = "warning"

----------------------------------------------------------------------------
(* Claims on the ownership of transactions *)

\* The rows of ids other than tx_id are in both tables the same rows in the
\* same order.
OthersUnchanged(before, after, tx_id) ==
    SelectSeq(after, LAMBDA r : r.id # tx_id)
        = SelectSeq(before, LAMBDA r : r.id # tx_id)

\* The stored row of the id tx_id is owned by user_id.
Owns(user_id, tx_id) ==
    \E i \in 1..Len(transactions) :
        transactions[i].id = tx_id /\ transactions[i].user_id = user_id

\* C28: update_transaction, delete_transaction and get_transaction_by_id
\* with (user_id, tx_id) act on the transaction of that id only if user_id
\* owns it: for the id of another user's transaction the table stays as it
\* is and the lookup returns None, and every transaction of another id
\* stays as it is in every case.  admin_delete_transaction removes the
\* transaction of the id whoever owns it.
C28_OwnerOnly ==
    [][LET call == result'.call
           args == result'.args
       IN  /\ call \in {"update_transaction", "delete_transaction"} =>
                /\ OthersUnchanged(transactions, transactions', args[2])
                /\ ~Owns(args[1], args[2]) => transactions' = transactions
           /\ call = "delete_transaction" /\ Owns(args[1], args[2]) =>
                \A i \in 1..Len(transactions') : transactions'[i].id # args[2]
           /\ call = "update_transaction" /\ Owns(args[1], args[2]) =>
                /\ Len(transactions') = Len(transactions)
                /\ \A i \in 1..Len(transactions) :
                        /\ transactions'[i].id = transactions[i].id
                        /\ transactions'[i].user_id = transactions[i].user_id
           /\ call = "get_transaction_by_id" =>
                /\ transactions' = transactions
                /\ IF Owns(args[1], args[2])
                   THEN /\ result'.returned # Nothing
                        /\ result'.returned[1].id = args[2]
                        /\ result'.returned[1].user_id = args[1]
                   ELSE result'.returned = Nothing
           /\ call = "admin_delete_transaction" =>
                /\ OthersUnchanged(transactions, transactions', args[1])
                /\ \A i \in 1..Len(transactions') : transactions'[i].id # args[1]
      ]_vars

\* User 2 has called update_transaction with the id 1 of a transaction of
\* user 1 and the amount 2,000: the transaction is stored as user 1 entered
\* it, with the amount 1,000.
C28_Witness ==
    /\ result.call = "update_transaction"
    /\ result.args = <<2, 1>>
    /\ Len(transactions) = 2
    /\ transactions[1].id = 1 /\ transactions[1].user_id = 1
    /\ transactions[1].amount = 1000 /\ transactions[1].date = D0
    /\ transactions[2].user_id = 2

----------------------------------------------------------------------------
(* Claims on the accounts *)

\* The calls and page runs that end with init_db.
EndWithInitDb == {"init_db", "login", "logout", "require_admin", "change_role"}

\* C29: after every init_db exactly one user has the admin name, and its
\* role is admin, also when update_user_role had made it a user; an init_db
\* after the first adds no user and no category row; register_user with a
\* username in use returns None and leaves the table users as it was.
C29_AdminKept ==
    /\ [](result.call \in EndWithInitDb =>
            /\ Cardinality(UsersNamed(users, AdminName)) = 1
            /\ \A i \in UsersNamed(users, AdminName) : users[i].role = "admin")
    /\ [][/\ (result'.call = "init_db" /\ users # <<>>) =>
                /\ Len(users') = Len(users)
                /\ \A i \in 1..Len(users) :
                        users'[i] = [users[i] EXCEPT !.role =
                            IF users[i].username = AdminName THEN "admin" ELSE @]
                /\ next_user_id' = next_user_id
                /\ categories' = categories
          /\ (/\ result'.call = "register_user"
              /\ result'.error = ""
              /\ UsersNamed(users, result'.args[1]) # {}) =>
                /\ result'.returned = Nothing
                /\ users' = users
         ]_vars

\* init_db found the admin account with the role user, next to a second
\* account, and has given it the role admin again.
C29_Witness ==
    /\ result.call = "init_db"
    /\ Len(result.previous[1]) = 2
    /\ \E i \in UsersNamed(result.previous[1], AdminName) :
            result.previous[1][i].role = "user"
    /\ Len(users) = 2
    /\ \A i \in UsersNamed(users, AdminName) : users[i].role = "admin"

\* The role the table users holds for the account of a session.
RoleInTable(rows, s) ==
    LET i == CHOOSE i \in 1..Len(rows) : rows[i].id = session[s][1].id
    IN  rows[i].role

\* C30: require_admin lets a session go on only if it is logged in and the
\* role its user dict got at login is admin.  The dict is a copy made at
\* login of the role the table held then: a later update_user_role does not
\* reach it, and the session passes or fails require_admin as it did at
\* login until it has logged out and in again.
C30_RoleOfSession ==
    /\ [](result.call = "require_admin" =>
            LET s == result.args[1]
            IN  result.returned = Some("admin")
                    <=> (session[s] # Nothing /\ session[s][1].role = "admin"))
    /\ [][\A s \in Sessions :
            /\ (session[s] = Nothing /\ session'[s] # Nothing) =>
                    \E i \in 1..Len(users') :
                        /\ users'[i].id = session'[s][1].id
                        /\ users'[i].role = session'[s][1].role
            /\ (session[s] # Nothing /\ session'[s] # Nothing) =>
                    /\ session'[s] = session[s]
                    /\ require_admin(s)' = require_admin(s)
         ]_vars

\* A session that logged in as an admin passes require_admin although the
\* table users holds the role user for its account by now.
C30_Witness ==
    /\ result.call = "require_admin"
    /\ result.args = <<2>>
    /\ result.returned = Some("admin")
    /\ session[2] # Nothing
    /\ session[2][1].username = "bob"
    /\ RoleInTable(users, 2) = "user"

============================================================================
